---- MODULE Spec2Model ----
(***************************************************************************)
(* A model of the fy compiler core: the lexer (utils.cpp), the typed AST   *)
(* with its eager constructors and IR emitters (asts.cpp) and the value /  *)
(* cast layer (values.cpp).  Types are records tagged by type_type, IR     *)
(* values are tagged tuples, AST nodes are records caching their type.     *)
(***************************************************************************)
EXTENDS Integers, Sequences, FiniteSets, TLC

VARIABLES
  curr_named_var_types, \* identifier -> Type, written by constructors
  curr_named_variables, \* identifier -> Value, written by emitters
  operands,             \* leaf nodes constructed and not yet owned by a parent
  node,                 \* the expression constructed last, NoNode when none
  last,                 \* what the emission just done returned and emitted, else NoLast
  irn,                  \* number of IR instructions created so far
  fatal,                \* NoFatal, or the error() that ended the run and who raised it
  bound,                \* identifier -> "const" / "let": the kind of let emitted last for it
  declared,             \* identifiers named by a Let, Prototype or Declare constructed so far
  module,               \* curr_module: its functions and globals, in creation order
  castSrc,              \* cast(): the source Value
  castTo,               \* cast(): the target Type
  castRes,              \* cast(): the outcome, NoRes before the call
  whileIn,              \* the program compiled and run, NoWhile when none
  exec,                 \* the machine running the emitted IR, NoExec when none
  lex,                  \* the lexer's globals and character source, NoLex when none
  tok                   \* what the last next_token() returned, "none" before

astVars == <<curr_named_var_types, curr_named_variables, operands, node, last, irn, fatal, bound,
            declared, module>>
castVars == <<castSrc, castTo, castRes>>
runVars == <<whileIn, exec>>
lexVars == <<lex, tok>>
vars == <<curr_named_var_types, curr_named_variables, operands, node, last, irn, fatal,
          bound, declared, module, castSrc, castTo, castRes, whileIn, exec, lex, tok>>

\* ---------------------------------------------------------------------------
\* Bounds
\* ---------------------------------------------------------------------------
MaxCount == 2     \* largest tuple length / array count drawn as an input
MaxOperands == 3  \* leaf nodes waiting for their parent (an if needs three)
MaxSymbols == 2   \* top-level emission starts only while the module has fewer symbols
MaxIrn == 3       \* emission starts only while fewer instructions exist
MaxIter == 3      \* a loop body is entered at most this many times in a run
MaxText == 4      \* longest source text handed to the lexer (one more for small alphabets)

\* ---------------------------------------------------------------------------
\* Types (types.cpp is not part of the sources; modelled from spec section 3)
\* ---------------------------------------------------------------------------
NoType == [tt |-> "nullptr"]
NumType(bits, is_floating, is_signed) ==
  [tt |-> "Number", bits |-> bits, is_floating |-> is_floating, is_signed |-> is_signed]
PointerType(points_to) == [tt |-> "Pointer", points_to |-> points_to]
TupleType(types) == [tt |-> "Tuple", types |-> types]
ArrayType(elem, count) == [tt |-> "Array", elem |-> elem, count |-> count]
StructType(name, fields) == [tt |-> "Struct", name |-> name, fields |-> fields]
FunctionType(return_type, arguments, vararg) ==
  [tt |-> "Function", return_type |-> return_type, arguments |-> arguments, vararg |-> vararg]
NullType == [tt |-> "Null"]

type_type(t) == t.tt

RECURSIVE stringify(_)
\* Type::stringify: the canonical printable form of a type
stringify(t) ==
  CASE t.tt = "Number" ->
         (IF t.is_floating THEN "f" ELSE IF t.is_signed THEN "i" ELSE "u")
           \o ToString(t.bits)
    [] t.tt = "Pointer" -> "*" \o stringify(t.points_to)
    [] t.tt = "Array" -> stringify(t.elem) \o "[" \o ToString(t.count) \o "]"
    [] OTHER -> t.tt

I1 == NumType(1, FALSE, FALSE)
U8 == NumType(8, FALSE, FALSE)
I8 == NumType(8, FALSE, TRUE)
I32 == NumType(32, FALSE, TRUE)
U32 == NumType(32, FALSE, FALSE)
I64 == NumType(64, FALSE, TRUE)
F32 == NumType(32, TRUE, TRUE)
F64 == NumType(64, TRUE, TRUE)

RECURSIVE eq(_, _)
RECURSIVE SeqEq(_, _)
\* Type::eq - structural deep equality; a struct's name is not compared.
eq(a, b) ==
  IF a.tt # b.tt THEN FALSE
  ELSE CASE a.tt = "Number" ->
              a.bits = b.bits /\ a.is_floating = b.is_floating /\ a.is_signed = b.is_signed
         [] a.tt = "Pointer" -> eq(a.points_to, b.points_to)
         [] a.tt = "Tuple" -> SeqEq(a.types, b.types)
         [] a.tt = "Array" -> a.count = b.count /\ eq(a.elem, b.elem)
         [] a.tt = "Struct" -> SeqEq(a.fields, b.fields)
         [] a.tt = "Function" ->
              /\ a.vararg = b.vararg
              /\ eq(a.return_type, b.return_type)
              /\ SeqEq(a.arguments, b.arguments)
         [] OTHER -> TRUE
SeqEq(s, t) ==
  /\ Len(s) = Len(t)
  /\ \A i \in 1..Len(s) : eq(s[i], t[i])
neq(a, b) == ~eq(a, b)

\* ---------------------------------------------------------------------------
\* Values (values.cpp)
\* ---------------------------------------------------------------------------
NoValue == [kind |-> "nullptr"]
ConstValue(type, val) == [kind |-> "ConstValue", type |-> type, val |-> val]
ConstValueWithPtr(type, ptr, val) ==
  [kind |-> "ConstValueWithPtr", type |-> type, ptr |-> ptr, val |-> val]
BasicLoadValue(type, variable) ==
  [kind |-> "BasicLoadValue", type |-> type, variable |-> variable]
CastValue(source, to) == [kind |-> "CastValue", source |-> source, to |-> to]
\* a cast_to that hands back the source when it already has the target type
cast_to_same(v, to) == IF v.type = to THEN v ELSE CastValue(v, to)
\* Value::cast_to - wraps, never fails
cast_to(v, to) == CastValue(v, to)

\* the lazy phi returned by if/while emission; materialised by gen_phi
PHIValue(a_bb, a_v, b_bb, b_v) ==
  [kind |-> "PHIValue", a_bb |-> a_bb, a_v |-> a_v, b_bb |-> b_bb, b_v |-> b_v]

\* Value::has_ptr of each Value class
has_ptr(v) == v.kind \in {"ConstValueWithPtr", "BasicLoadValue"}
RECURSIVE get_type(_)
\* Value::get_type of each Value class
get_type(v) ==
  CASE v.kind = "CastValue" -> v.to
    [] v.kind = "PHIValue" -> get_type(v.a_v)
    [] v.kind = "nullptr" -> NoType
    [] OTHER -> v.type

\* ---------------------------------------------------------------------------
\* The IR builder: a function under construction is a sequence of basic blocks,
\* each a sequence of instructions; operands are <<"inst", id>>, <<"const", ty, n>>,
\* <<"null", ty>>, <<"real", ty, n>>, <<"slot", k>>, <<"param", name>>.
\* An emission state st threads the builder, curr_named_variables (st.vars) and
\* the fatal-error flag; st.r is the IR value and st.v the Value just returned.
\* ---------------------------------------------------------------------------
NoRef == <<"none">>
Block(name, attached) == [name |-> name, insts |-> <<>>, attached |-> attached]
NewState(named_variables, n) ==
  [blocks |-> <<Block("entry", TRUE)>>, cur |-> 1, atEnd |-> TRUE, n |-> n,
   vars |-> named_variables, err |-> "", r |-> NoRef, v |-> NoValue]

\* statement sequencing: the emission state e left by one statement is the
\* state the rest of the function body F starts from
Bind(e, F(_)) == F(e)

\* error(): the process exits; nothing is emitted afterwards
Fail(st, msg) == IF st.err # "" THEN st ELSE [st EXCEPT !.err = msg]

InsertBeforeLast(s, e) ==
  IF Len(s) = 0 THEN <<e>>
  ELSE Append(SubSeq(s, 1, Len(s) - 1), e) \o <<s[Len(s)]>>

\* LLVMBuild*: insert one instruction at the builder position
Build(st, op, ty, args) ==
  IF st.err # "" THEN st
  ELSE LET id == st.n + 1
           ins == [id |-> id, op |-> op, ty |-> ty, args |-> args]
           old == st.blocks[st.cur].insts
       IN [st EXCEPT !.n = id,
                     !.blocks[st.cur].insts =
                        IF st.atEnd THEN Append(old, ins) ELSE InsertBeforeLast(old, ins),
                     !.r = <<"inst", id>>]
Ret(st, ref) == IF st.err # "" THEN st ELSE [st EXCEPT !.r = ref]
RetV(st, value) == IF st.err # "" THEN st ELSE [st EXCEPT !.v = value]

\* gen_num_cast(value, a, b); st.r holds the loaded source value
gen_num_cast(st, a, b) ==
  IF b.tt = "Number" THEN
    IF b.bits = 1 THEN
      IF a.is_floating THEN Build(st, "FCmpUNE", b, <<st.r, <<"null", a>>>>)
      ELSE Build(st, "ICmpNE", b, <<st.r, <<"null", a>>>>)
    ELSE IF ~b.is_floating /\ a.is_floating THEN
      Build(st, IF a.is_signed THEN "FPToSI" ELSE "FPToUI", b, <<st.r>>)
    ELSE IF b.is_floating /\ ~a.is_floating THEN
      Build(st, IF a.is_signed THEN "SIToFP" ELSE "UIToFP", b, <<st.r>>)
    ELSE IF a.is_floating THEN Build(st, "FPCast", b, <<st.r>>)
    ELSE Build(st, IF a.is_signed THEN "SExtOrTrunc" ELSE "ZExtOrTrunc", b, <<st.r>>)
  ELSE IF b.tt = "Pointer" THEN Build(st, "IntToPtr", b, <<st.r>>)
  ELSE Fail(st, "num can't be casted")

\* gen_ptr_cast(value, a, b); st.r holds the loaded source value
gen_ptr_cast(st, a, b) ==
  IF b.tt = "Pointer" THEN Build(st, "PointerCast", b, <<st.r>>)
  ELSE IF b.tt = "Number" THEN Build(st, "PtrToInt", b, <<st.r>>)
  ELSE Fail(st, "ptr can't be casted")

RECURSIVE gen_val(_, _)
RECURSIVE gen_ptr(_, _)
RECURSIVE gen_phi(_, _, _, _, _)
RECURSIVE cast(_, _, _)

\* gen_arr_cast(value, a, b)
gen_arr_cast(st, value, a, b) ==
  IF b.tt = "Pointer" THEN
    IF neq(b.points_to, a.elem) THEN
      Fail(st, "Array can't be casted to pointer with different type")
    ELSE IF ~has_ptr(value) THEN
      Fail(st, "const arrays can't be automatically casted to a pointer")
    ELSE Bind(gen_ptr(st, value), LAMBDA s1 :
           Build(s1, "GEP", a, <<s1.r, <<"const", U32, 0>>, <<"const", U32, 0>>>>))
  ELSE Fail(st, "arr can't be casted")

\* gen_tuple_cast as it would be without the element-count check
gen_tuple_cast_any_count(st, value, a, b) ==
  IF b.tt = "Array" THEN
    IF \E i \in 1..Len(a.types) : neq(a.types[i], b.elem) THEN
      Fail(st, "Tuple can't be casted to array with different type")
    ELSE IF has_ptr(value) THEN
      Bind(gen_ptr(st, value), LAMBDA s1 :
      Bind(Build(s1, "BitCast", b, <<s1.r>>), LAMBDA s2 :
        Build(s2, "Load", b, <<s2.r>>)))
    ELSE Bind(gen_val(st, value), LAMBDA s1 :
           Build(s1, "InsertExtract", b, <<s1.r>>))
  ELSE Fail(st, "tuple can't be casted")

\* gen_tuple_cast(value, a, b)
gen_tuple_cast(st, value, a, b) ==
  IF b.tt = "Array" THEN
    IF \E i \in 1..Len(a.types) : neq(a.types[i], b.elem) THEN
      Fail(st, "Tuple can't be casted to array with different type")
    ELSE IF b.count # Len(a.types) THEN
      Fail(st, "Tuple can't be casted to array with different size")
    ELSE IF has_ptr(value) THEN
      Bind(gen_ptr(st, value), LAMBDA s1 :
      Bind(Build(s1, "BitCast", b, <<s1.r>>), LAMBDA s2 :
        Build(s2, "Load", b, <<s2.r>>)))
    ELSE Bind(gen_val(st, value), LAMBDA s1 :
           Build(s1, "InsertExtract", b, <<s1.r>>))
  ELSE Fail(st, "tuple can't be casted")

\* cast(source, to)
cast(st, source, to) ==
  LET src == get_type(source) IN
  IF eq(src, to) THEN
    Bind(gen_val(st, source), LAMBDA s1 : Build(s1, "BitCast", to, <<s1.r>>))
  ELSE IF src.tt = "Number" THEN gen_num_cast(gen_val(st, source), src, to)
  ELSE IF src.tt = "Pointer" THEN gen_ptr_cast(gen_val(st, source), src, to)
  ELSE IF src.tt = "Array" THEN gen_arr_cast(st, source, src, to)
  ELSE IF src.tt = "Tuple" THEN gen_tuple_cast(st, source, src, to)
  ELSE IF src.tt = "Null" THEN Ret(st, <<"null", to>>)
  ELSE Fail(st, "Invalid cast")

\* gen_phi(a_bb, a_v, b_bb, b_v): each incoming value is loaded before the
\* terminator of its block, the phi is built where the builder stood
gen_phi(st, a_bb, a_v, b_bb, b_v) ==
  IF neq(get_type(a_v), get_type(b_v)) THEN
    Fail(st, "conditional's values must have the same type")
  ELSE LET type == get_type(a_v)
           curr == st.cur
       IN Bind(gen_val([st EXCEPT !.cur = a_bb, !.atEnd = FALSE], a_v), LAMBDA s1 :
          Bind(gen_val([s1 EXCEPT !.cur = b_bb, !.atEnd = FALSE], b_v), LAMBDA s2 :
            Build([s2 EXCEPT !.cur = curr, !.atEnd = TRUE], "Phi", type,
                  <<s1.r, <<"block", a_bb>>, s2.r, <<"block", b_bb>>>>)))

\* Value::gen_val of each Value class
gen_val(st, v) ==
  IF st.err # "" THEN st
  ELSE CASE v.kind = "ConstValue" -> Ret(st, v.val)
         [] v.kind = "ConstValueWithPtr" -> Ret(st, v.val)
         [] v.kind = "BasicLoadValue" -> Build(st, "Load", v.type, <<v.variable>>)
         [] v.kind = "CastValue" -> cast(st, v.source, v.to)
         [] v.kind = "PHIValue" -> gen_phi(st, v.a_bb, v.a_v, v.b_bb, v.b_v)
         [] OTHER -> Fail(st, "null Value")

\* Value::gen_ptr of each Value class
gen_ptr(st, v) ==
  IF st.err # "" THEN st
  ELSE CASE v.kind = "ConstValue" -> Fail(st, "Const values can't be pointered")
         [] v.kind = "ConstValueWithPtr" -> Ret(st, v.ptr)
         [] v.kind = "BasicLoadValue" -> Ret(st, v.variable)
         [] v.kind = "CastValue" -> Fail(st, "Can't get the pointer to a cast")
         [] v.kind = "PHIValue" -> Fail(st, "Can't get the pointer to a phi")
         [] OTHER -> Fail(st, "null Value")

\* ---------------------------------------------------------------------------
\* AST nodes (asts.cpp).  A constructor returns [err, node, nvt]: the error()
\* message if it is fatal, the node with its cached type, and the updated
\* curr_named_var_types.
\* ---------------------------------------------------------------------------
Names == {"x", "y"}
NoNode == [k |-> "nullptr"]
Made(n, nvt) == [err |-> "", node |-> n, nvt |-> nvt]
Bad(msg, nvt) == [err |-> msg, node |-> NoNode, nvt |-> nvt]

\* num_char_to_type(type_char, has_dot); NoType stands for the error() exits
num_char_to_type(type_char, has_dot) ==
  CASE type_char = "d" -> F64
    [] type_char = "f" -> F32
    [] type_char = "i" -> IF has_dot THEN NoType ELSE I32
    [] type_char = "u" -> IF has_dot THEN NoType ELSE U32
    [] type_char = "l" -> IF has_dot THEN NoType ELSE I64
    [] type_char = "b" -> IF has_dot THEN NoType ELSE U8
    [] OTHER -> NoType

\* NumberExprAST::NumberExprAST
NumberExprAST(val, type_char, has_dot, base, nvt) ==
  LET t == num_char_to_type(type_char, has_dot) IN
  IF t = NoType THEN Bad("Invalid number type", nvt)
  ELSE Made([k |-> "Number", val |-> val, base |-> base, type |-> t], nvt)

\* the constructor as it would be without the lookup's null check
VariableExprAST_unchecked(name, nvt) ==
  Made([k |-> "Variable", name |-> name, type |-> nvt[name]], nvt)

\* VariableExprAST::VariableExprAST
VariableExprAST(name, nvt) ==
  LET type == nvt[name] IN
  IF type = NoType THEN Bad("Variable doesn't exist", nvt)
  ELSE Made([k |-> "Variable", name |-> name, type |-> type], nvt)

\* LetExprAST::LetExprAST
LetExprAST(id, type, value, constant, global, nvt) ==
  IF type # NoType THEN
    Made([k |-> "Let", id |-> id, type |-> type, value |-> value,
          constant |-> constant, global |-> global],
         [nvt EXCEPT ![id] = type])
  ELSE IF value # NoNode THEN
    Made([k |-> "Let", id |-> id, type |-> value.type, value |-> value,
          constant |-> constant, global |-> global],
         [nvt EXCEPT ![id] = value.type])
  ELSE Bad("Untyped valueless variable", nvt)

\* binop_precedence[op] == 10: the comparison operators
IsComparison(op) == op \in {"<", ">", "T_LEQ", "T_GEQ", "T_EQEQ", "T_NEQ"}

\* BinaryExprAST::BinaryExprAST
BinaryExprAST(op, LHS, RHS, nvt) ==
  LET lhs_t == LHS.type
      rhs_t == RHS.type
      lhs_tt == type_type(lhs_t)
      rhs_tt == type_type(rhs_t)
      mk(t) == Made([k |-> "Binary", op |-> op, LHS |-> LHS, RHS |-> RHS, type |-> t], nvt)
  IN IF op = "=" THEN mk(rhs_t)
     ELSE IF lhs_tt = "Number" /\ rhs_tt = "Number" THEN
       mk(IF IsComparison(op) THEN NumType(1, FALSE, FALSE) ELSE lhs_t)
     ELSE IF lhs_tt = "Pointer" /\ rhs_tt = "Number" THEN mk(lhs_t)
     ELSE IF lhs_tt = "Number" /\ rhs_tt = "Pointer" THEN mk(rhs_t)
     ELSE Bad("Unknown ptr_ptr op", nvt)

\* NullExprAST::NullExprAST
NullExprAST(type) == [k |-> "Null", type |-> type]

\* the constructor as it would be if a missing else were accepted only for a
\* nullable then arm
IfExprAST_else_required(kind, cond, then, elze, nvt) ==
  IF elze = NoNode /\ then.type.tt \notin {"Pointer", "Null"}
  THEN Bad("if without else", nvt)
  ELSE LET elze2 == IF elze = NoNode THEN NullExprAST(then.type) ELSE elze
       IN IF neq(then.type, elze2.type)
          THEN Bad("then and else side don't have the same type", nvt)
          ELSE Made([k |-> kind, cond |-> cond, then |-> then, elze |-> elze2,
                     type |-> then.type], nvt)

\* IfExprAST::IfExprAST (inherited unchanged by WhileExprAST); kind is "If" or "While"
IfExprAST(kind, cond, then, elze, nvt) ==
  LET then_t == then.type
      type == then_t
      elze2 == IF elze = NoNode THEN NullExprAST(type) ELSE elze
      else_t == elze2.type
  IN IF neq(then_t, else_t) THEN Bad("then and else side don't have the same type", nvt)
     ELSE Made([k |-> kind, cond |-> cond, then |-> then, elze |-> elze2, type |-> type], nvt)

\* BlockExprAST::BlockExprAST
BlockExprAST(exprs, nvt) ==
  IF Len(exprs) = 0 THEN Bad("block can't be empty.", nvt)
  ELSE Made([k |-> "Block", exprs |-> exprs, type |-> exprs[Len(exprs)].type], nvt)

RECURSIVE RegisterArgs(_, _, _, _)
\* the loop of PrototypeAST::PrototypeAST installing the parameter names
RegisterArgs(nvt, arg_names, arg_types, i) ==
  IF i > Len(arg_names) THEN nvt
  ELSE RegisterArgs([nvt EXCEPT ![arg_names[i]] = arg_types[i]], arg_names, arg_types, i + 1)

\* PrototypeAST::PrototypeAST (the free-function form)
PrototypeAST(name, arg_names, arg_types, return_type, vararg, nvt) ==
  LET type == FunctionType(return_type, arg_types, vararg)
      nvt1 == RegisterArgs(nvt, arg_names, arg_types, 1)
  IN Made([k |-> "Prototype", name |-> name, arg_names |-> arg_names,
           arg_types |-> arg_types, type |-> type],
          [nvt1 EXCEPT ![name] = type])

\* DeclareExprAST::register_declare
register_declare(d, nvt) ==
  IF d.type.tt = "Function" THEN [nvt EXCEPT ![d.prot.name] = d.type]
  ELSE [nvt EXCEPT ![d.let.id] = d.type]

\* DeclareExprAST::DeclareExprAST, over a Let or a Prototype.  A Let of a
\* function type makes register_declare read prot->name through the null prot:
\* the process dies on the null page, which ends the run like error()
DeclareExprAST(inner, nvt) ==
  LET d == [k |-> "Declare",
            let |-> IF inner.k = "Let" THEN inner ELSE NoNode,
            prot |-> IF inner.k = "Prototype" THEN inner ELSE NoNode,
            type |-> inner.type]
  IN IF inner.k = "Let" /\ inner.type.tt = "Function"
     THEN Bad("null prot dereferenced", nvt)
     ELSE Made(d, register_declare(d, nvt))

\* FunctionAST::FunctionAST: an unresolved return type becomes the body's type,
\* in the FunctionType object the prototype registered
FunctionAST(proto, body, nvt) ==
  LET type == IF proto.type.return_type = NoType
              THEN [proto.type EXCEPT !.return_type = body.type] ELSE proto.type
      nvt1 == IF nvt[proto.name] = proto.type THEN [nvt EXCEPT ![proto.name] = type] ELSE nvt
  IN Made([k |-> "Function", proto |-> [proto EXCEPT !.type = type], body |-> body], nvt1)

\* CallExprAST::CallExprAST.  A callee whose type is a pointer to something
\* that is no function leaves func_t null, and func_t->vararg reads through
\* it: the process dies on the null page, which ends the run like error()
CallExprAST(called, args, nvt) ==
  LET ct == called.type
      func_t == IF ct.tt = "Function" THEN ct
                ELSE IF ct.tt = "Pointer" /\ ct.points_to.tt = "Function" THEN ct.points_to
                ELSE NoType
  IN IF ct.tt \notin {"Function", "Pointer"}
     THEN Bad("Function doesn't exist or is not a function", nvt)
     ELSE IF func_t = NoType THEN Bad("null func_t dereferenced", nvt)
     ELSE IF (IF func_t.vararg THEN Len(args) < Len(func_t.arguments)
              ELSE Len(args) # Len(func_t.arguments))
     THEN Bad("Incorrect # arguments passed.", nvt)
     ELSE Made([k |-> "Call", called |-> called, args |-> args, func_t |-> func_t,
                type |-> func_t.return_type], nvt)

\* StringExprAST::StringExprAST; chars is the bytes fed in, length included
StringExprAST(chars, nvt) ==
  IF chars[Len(chars)] # 0
  THEN Bad("C-style strings should be fed into StringExprAST including the last null-byte",
           nvt)
  ELSE Made([k |-> "String", chars |-> chars, length |-> Len(chars),
             c_type |-> NumType(8, FALSE, TRUE),
             t_type |-> TupleType([j \in 1..Len(chars) |-> NumType(8, FALSE, TRUE)]),
             p_type |-> PointerType(NumType(8, FALSE, TRUE)),
             type |-> PointerType(NumType(8, FALSE, TRUE))], nvt)

\* UnaryExprAST::UnaryExprAST
UnaryExprAST(op, operand, nvt) ==
  IF op = "*" THEN
    IF operand.type.tt = "Pointer"
    THEN Made([k |-> "Unary", op |-> op, operand |-> operand,
               type |-> operand.type.points_to], nvt)
    ELSE Bad("* can't be used on a non-pointer type", nvt)
  ELSE Made([k |-> "Unary", op |-> op, operand |-> operand,
             type |-> IF op = "&" THEN PointerType(operand.type) ELSE operand.type], nvt)

\* get_complete_extension_name(base_type, name): "(" type ")::" name
get_complete_extension_name(base_type, name) ==
  "(" \o stringify(base_type) \o ")::" \o name

\* the method form as it would be with this as the first parameter
PrototypeAST_this_first(this_type, name, arg_names, arg_types, return_type, vararg, nvt) ==
  PrototypeAST(get_complete_extension_name(this_type, name),
               <<"this">> \o arg_names, <<this_type>> \o arg_types,
               return_type, vararg, nvt)

\* PrototypeAST::PrototypeAST (the method form, with a this_type)
PrototypeAST_this(this_type, name, arg_names, arg_types, return_type, vararg, nvt) ==
  PrototypeAST(get_complete_extension_name(this_type, name),
               Append(arg_names, "this"), Append(arg_types, this_type),
               return_type, vararg, nvt)

\* MethodCallExprAST::MethodCallExprAST
MethodCallExprAST(name, source, args, nvt) ==
  Bind(VariableExprAST(get_complete_extension_name(source.type, name), nvt),
       LAMBDA called_function :
    IF called_function.err # "" THEN Bad(called_function.err, nvt)
    ELSE Bind(CallExprAST(called_function.node, Append(args, source), nvt),
              LAMBDA underlying_call :
           IF underlying_call.err # "" THEN Bad(underlying_call.err, nvt)
           ELSE Made([k |-> "MethodCall", underlying_call |-> underlying_call.node,
                      type |-> underlying_call.node.type], nvt)))

\* ---------------------------------------------------------------------------
\* Emission (gen_value of each node class)
\* ---------------------------------------------------------------------------
SetVar(st, id, value) == IF st.err # "" THEN st ELSE [st EXCEPT !.vars[id] = value]
\* LLVMAppendBasicBlockInContext / LLVMCreateBasicBlockInContext: the new block
\* is the last of st.blocks
NewBlock(st, name, attached) ==
  IF st.err # "" THEN st ELSE [st EXCEPT !.blocks = Append(@, Block(name, attached))]
\* LLVMAppendExistingBasicBlock
Attach(st, bb) == IF st.err # "" THEN st ELSE [st EXCEPT !.blocks[bb].attached = TRUE]
\* the block a NewBlock just made (index into st.blocks)
Last(st) == Len(st.blocks)
\* LLVMPositionBuilderAtEnd
PositionAtEnd(st, bb) == IF st.err # "" THEN st ELSE [st EXCEPT !.cur = bb, !.atEnd = TRUE]

\* the float_float switch of gen_num_num_binop; "" is its default: exit
FloatOp(op) ==
  CASE op = "+" -> "FAdd" [] op = "-" -> "FSub" [] op = "*" -> "FMul"
    [] op = "/" -> "FDiv" [] op = "%" -> "FRem"
    [] op \in {"T_LAND", "&"} -> "And" [] op \in {"T_LOR", "|"} -> "Or"
    [] op = "<" -> "FCmpULT" [] op = ">" -> "FCmpUGT"
    [] op = "T_LEQ" -> "FCmpULE" [] op = "T_GEQ" -> "FCmpUGE"
    [] op = "T_EQEQ" -> "FCmpUEQ" [] op = "T_NEQ" -> "FCmpUNE"
    [] OTHER -> ""
\* the int_int switch of gen_num_num_binop; "" is its default: exit
IntOp(op, is_signed) ==
  CASE op = "+" -> "Add" [] op = "-" -> "Sub" [] op = "*" -> "Mul"
    [] op = "/" -> IF is_signed THEN "SDiv" ELSE "UDiv"
    [] op = "%" -> IF is_signed THEN "SRem" ELSE "URem"
    [] op \in {"T_LAND", "&"} -> "And" [] op \in {"T_LOR", "|"} -> "Or"
    [] op = "<" -> IF is_signed THEN "ICmpSLT" ELSE "ICmpULT"
    [] op = ">" -> IF is_signed THEN "ICmpSGT" ELSE "ICmpUGT"
    [] op = "T_LEQ" -> IF is_signed THEN "ICmpSLE" ELSE "ICmpULE"
    [] op = "T_GEQ" -> IF is_signed THEN "ICmpSGE" ELSE "ICmpUGE"
    [] op = "T_EQEQ" -> "ICmpEQ" [] op = "T_NEQ" -> "ICmpNE"
    [] OTHER -> ""

\* gen_num_num_binop(op, L, R, lhs_nt, rhs_nt)
gen_num_num_binop(st, op, L, R, lhs_nt, rhs_nt) ==
  LET wide == IF rhs_nt.bits > lhs_nt.bits THEN rhs_nt ELSE lhs_nt
      ty == IF IsComparison(op) THEN I1 ELSE wide
      floating == lhs_nt.is_floating /\ rhs_nt.is_floating
      is_signed == lhs_nt.is_signed /\ rhs_nt.is_signed
  IN Bind(IF lhs_nt.bits > rhs_nt.bits
          THEN gen_num_cast(Ret(st, R), rhs_nt, lhs_nt) ELSE Ret(st, R), LAMBDA sR :
     Bind(IF rhs_nt.bits > lhs_nt.bits
          THEN gen_num_cast(Ret(sR, L), lhs_nt, rhs_nt) ELSE Ret(sR, L), LAMBDA sL :
       IF floating THEN
         IF FloatOp(op) = "" THEN Fail(sL, "invalid float_float binary operator")
         ELSE Build(sL, FloatOp(op), ty, <<sL.r, sR.r>>)
       ELSE IF ~lhs_nt.is_floating /\ ~rhs_nt.is_floating THEN
         IF IntOp(op, is_signed) = "" THEN Fail(sL, "invalid int_int binary operator")
         ELSE Build(sL, IntOp(op, is_signed), ty, <<sL.r, sR.r>>)
       ELSE Fail(sL, "invalid float_int binary operator")))

\* gen_ptr_num_binop as it would be if '-' indexed by num itself
gen_ptr_num_binop_unnegated(st, op, ptr, num, ptr_t, num_t) ==
  IF op \in {"+", "-"} THEN Build(st, "GEP", ptr_t.points_to, <<ptr, num>>)
  ELSE Fail(st, "invalid ptr_num binary operator")

\* gen_ptr_num_binop(op, ptr, num, ptr_t, num_t)
gen_ptr_num_binop(st, op, ptr, num, ptr_t, num_t) ==
  CASE op = "-" ->
         Bind(Build(st, "Sub", num_t, <<<<"const", U32, 0>>, num>>), LAMBDA s1 :
           Build(s1, "GEP", ptr_t.points_to, <<ptr, s1.r>>))
    [] op = "+" -> Build(st, "GEP", ptr_t.points_to, <<ptr, num>>)
    [] OTHER -> Fail(st, "invalid ptr_num binary operator")

RECURSIVE gen_value(_, _)
RECURSIVE gen_exprs(_, _, _)

\* gen_value as it would be without the check of the base
NumberExprAST_gen_value_any_base(st, n) ==
  RetV(st, ConstValue(n.type, <<"const", n.type, n.val>>))

\* NumberExprAST::gen_value
NumberExprAST_gen_value(st, n) ==
  IF n.type.is_floating /\ n.base # 10 THEN
    Fail(st, "floating-point numbers with a base that isn't decimal aren't supported.")
  ELSE RetV(st, ConstValue(n.type, <<"const", n.type, n.val>>))

\* VariableExprAST::gen_value
VariableExprAST_gen_value(st, n) == RetV(st, st.vars[n.name])

\* LetExprAST::gen_value
LetExprAST_gen_value(st, n) ==
  IF n.constant THEN
    IF n.value # NoNode THEN
      Bind(gen_value(st, n.value), LAMBDA s1 : SetVar(s1, n.id, s1.v))
    ELSE Fail(st, "Constant variables need an initialization value")
  ELSE
    Bind(Build(st, "Alloca", n.type, <<n.id>>), LAMBDA s1 :
    Bind(SetVar(s1, n.id, BasicLoadValue(n.type, s1.r)), LAMBDA s2 :
    Bind(IF n.value # NoNode
         THEN Bind(gen_value(s2, n.value), LAMBDA a :
              Bind(gen_val(a, cast_to(a.v, n.type)), LAMBDA b :
                Build(b, "Store", n.type, <<b.r, s1.r>>)))
         ELSE s2, LAMBDA s3 :
      RetV(s3, BasicLoadValue(n.type, s1.r)))))

\* BinaryExprAST::gen_assign
gen_assign(st, n) ==
  Bind(gen_value(st, n.LHS), LAMBDA s1 :
  Bind(gen_ptr(s1, s1.v), LAMBDA store_ptr :
  Bind(gen_value(store_ptr, n.RHS), LAMBDA s3 :
  Bind(gen_val(s3, cast_to(s3.v, n.LHS.type)), LAMBDA s4 :
  Bind(Build(s4, "Store", n.LHS.type, <<s4.r, store_ptr.r>>), LAMBDA s5 :
    RetV(s5, BasicLoadValue(n.type, store_ptr.r)))))))

\* BinaryExprAST::gen_value
BinaryExprAST_gen_value(st, n) ==
  LET lhs_t == n.LHS.type
      rhs_t == n.RHS.type
  IN IF n.op = "=" THEN gen_assign(st, n)
     ELSE
       Bind(gen_value(st, n.LHS), LAMBDA s1 :
       Bind(gen_val(s1, s1.v), LAMBDA L :
       Bind(gen_value(L, n.RHS), LAMBDA s3 :
       Bind(gen_val(s3, s3.v), LAMBDA R :
         IF lhs_t.tt = "Number" /\ rhs_t.tt = "Number" THEN
           Bind(gen_num_num_binop(R, n.op, L.r, R.r, lhs_t, rhs_t), LAMBDA s5 :
             RetV(s5, ConstValue(n.type, s5.r)))
         ELSE IF lhs_t.tt = "Number" /\ rhs_t.tt = "Pointer" THEN
           Bind(gen_ptr_num_binop(R, n.op, R.r, L.r, rhs_t, lhs_t), LAMBDA s5 :
             RetV(s5, ConstValue(n.type, s5.r)))
         ELSE IF lhs_t.tt = "Pointer" /\ rhs_t.tt = "Number" THEN
           Bind(gen_ptr_num_binop(R, n.op, L.r, R.r, lhs_t, rhs_t), LAMBDA s5 :
             RetV(s5, ConstValue(n.type, s5.r)))
         ELSE Fail(R, "Unknown ptr_ptr op")))))

\* NullExprAST::gen_value
NullExprAST_gen_value(st, n) == RetV(st, ConstValue(n.type, <<"null", n.type>>))

\* BlockExprAST::gen_value: every expression in order, the last one's Value
gen_exprs(st, exprs, i) ==
  IF i > Len(exprs) THEN st ELSE gen_exprs(gen_value(st, exprs[i]), exprs, i + 1)
BlockExprAST_gen_value(st, n) == gen_exprs(st, n.exprs, 1)

\* the condition as loaded for a branch: a floating condition is compared with
\* F64 0.0 (operand given), any other condition is used as it is
CondValue(st, n, operand, name) ==
  IF n.cond.type.tt = "Number" /\ n.cond.type.is_floating
  THEN Build(st, "FCmpONE", I1, <<operand, <<"const", F64, 0>>>>)
  ELSE st

\* IfExprAST::gen_value
IfExprAST_gen_value(st, n) ==
  Bind(gen_value(st, n.cond), LAMBDA c1 :
  Bind(gen_val(c1, c1.v), LAMBDA c2 :
  Bind(CondValue(c2, n, c2.r, "ifcond"), LAMBDA cond_v :
  Bind(NewBlock(cond_v, "ifthen", TRUE), LAMBDA then_bb :
  Bind(NewBlock(then_bb, "ifelse", FALSE), LAMBDA else_bb :
  Bind(NewBlock(else_bb, "ifmerge", FALSE), LAMBDA merge_bb :
  Bind(Build(merge_bb, "CondBr", I1,
             <<cond_v.r, <<"block", Last(then_bb)>>, <<"block", Last(else_bb)>>>>), LAMBDA s1 :
  Bind(gen_value(PositionAtEnd(s1, Last(then_bb)), n.then), LAMBDA then_v :
  Bind(Build(then_v, "Br", I1, <<<<"block", Last(merge_bb)>>>>), LAMBDA then_end :
  Bind(gen_value(PositionAtEnd(Attach(then_end, Last(else_bb)), Last(else_bb)), n.elze),
       LAMBDA else_v :
  Bind(Build(else_v, "Br", I1, <<<<"block", Last(merge_bb)>>>>), LAMBDA else_end :
    RetV(PositionAtEnd(Attach(else_end, Last(merge_bb)), Last(merge_bb)),
         PHIValue(then_end.cur, then_v.v, else_end.cur, else_v.v)))))))))))))

\* a while lowered as it would be without its back edge: the body once
WhileExprAST_gen_value_once(st, n) == IfExprAST_gen_value(st, n)

\* WhileExprAST::gen_value
WhileExprAST_gen_value(st, n) ==
  Bind(gen_value(st, n.cond), LAMBDA c1 :
  Bind(gen_val(c1, c1.v), LAMBDA c2 :
  Bind(CondValue(c2, n, c2.r, "whilecond"), LAMBDA cond_v :
  Bind(NewBlock(cond_v, "whilethen", TRUE), LAMBDA then_bb :
  Bind(NewBlock(then_bb, "whileelse", FALSE), LAMBDA else_bb :
  Bind(NewBlock(else_bb, "endwhile", FALSE), LAMBDA merge_bb :
  Bind(Build(merge_bb, "CondBr", I1,
             <<cond_v.r, <<"block", Last(then_bb)>>, <<"block", Last(else_bb)>>>>), LAMBDA s1 :
  Bind(gen_value(PositionAtEnd(s1, Last(then_bb)), n.then), LAMBDA then_v :
  Bind(gen_value(then_v, n.cond), LAMBDA d1 :
  Bind(gen_val(d1, d1.v), LAMBDA d2 :
  \* the floating comparison is built over cond_v, not over the value just loaded
  Bind(CondValue(d2, n, cond_v.r, "whilecond"), LAMBDA cond_v2 :
  Bind(Build(cond_v2, "CondBr", I1,
             <<cond_v2.r, <<"block", Last(then_bb)>>, <<"block", Last(merge_bb)>>>>),
       LAMBDA then_end :
  Bind(gen_value(PositionAtEnd(Attach(then_end, Last(else_bb)), Last(else_bb)), n.elze),
       LAMBDA else_v :
  Bind(Build(else_v, "Br", I1, <<<<"block", Last(merge_bb)>>>>), LAMBDA else_end :
    RetV(PositionAtEnd(Attach(else_end, Last(merge_bb)), Last(merge_bb)),
         PHIValue(then_end.cur, then_v.v, else_end.cur, else_v.v))))))))))))))))

RECURSIVE gen_args(_, _, _, _)
\* the argument loop of CallExprAST::gen_value: st.r becomes arg_vs
gen_args(st, n, i, arg_vs) ==
  IF st.err # "" \/ i > Len(n.args) THEN Ret(st, arg_vs)
  ELSE Bind(gen_value(st, n.args[i]), LAMBDA a :
       Bind(gen_val(a, IF i <= Len(n.func_t.arguments)
                       THEN cast_to(a.v, n.func_t.arguments[i]) ELSE a.v), LAMBDA b :
         gen_args(b, n, i + 1, Append(arg_vs, b.r))))

\* CallExprAST::gen_value
CallExprAST_gen_value(st, n) ==
  Bind(gen_value(st, n.called), LAMBDA c :
  Bind(gen_val(c, c.v), LAMBDA func :
  Bind(gen_args(func, n, 1, <<>>), LAMBDA arg_vs :
  Bind(Build(arg_vs, "Call", n.func_t.return_type, <<func.r>> \o arg_vs.r), LAMBDA s :
    RetV(s, ConstValue(n.func_t.return_type, s.r))))))

\* UnaryExprAST::gen_value
UnaryExprAST_gen_value(st, n) ==
  Bind(gen_value(st, n.operand), LAMBDA val :
    CASE n.op = "!" ->
           Bind(gen_val(val, val.v), LAMBDA l :
           Bind(Build(l, "FCmpONE", I1, <<l.r, <<"const", F64, 1>>>>), LAMBDA s :
             RetV(s, ConstValue(n.type, s.r))))
      [] n.op = "-" ->
           Bind(gen_val(val, val.v), LAMBDA l :
           Bind(Build(l, "FSub", F64, <<<<"const", F64, 0>>, l.r>>), LAMBDA s :
             RetV(s, ConstValue(n.type, s.r))))
      [] n.op = "*" ->
           Bind(gen_val(val, val.v), LAMBDA l : RetV(l, BasicLoadValue(n.type, l.r)))
      [] n.op = "&" ->
           Bind(gen_ptr(val, val.v), LAMBDA l : RetV(l, ConstValue(n.type, l.r)))
      [] OTHER -> Fail(val, "invalid prefix unary operator"))

\* StringExprAST::gen_value: the global .str initialised with the bytes, and
\* the constant GEP (0, 0) into it
StringExprAST_gen_value(st, n) ==
  RetV(st, ConstValue(n.p_type,
                      <<"gep", <<"global", ".str", n.t_type, n.chars>>, 0, 0>>))

\* MethodCallExprAST::gen_value
MethodCallExprAST_gen_value(st, n) == gen_value(st, n.underlying_call)

\* ExprAST::gen_value, dispatched on the node class
gen_value(st, n) ==
  IF st.err # "" THEN st
  ELSE CASE n.k = "Number" -> NumberExprAST_gen_value(st, n)
         [] n.k = "Variable" -> VariableExprAST_gen_value(st, n)
         [] n.k = "Let" -> LetExprAST_gen_value(st, n)
         [] n.k = "Binary" -> BinaryExprAST_gen_value(st, n)
         [] n.k = "Null" -> NullExprAST_gen_value(st, n)
         [] n.k = "Block" -> BlockExprAST_gen_value(st, n)
         [] n.k = "If" -> IfExprAST_gen_value(st, n)
         [] n.k = "While" -> WhileExprAST_gen_value(st, n)
         [] n.k = "Call" -> CallExprAST_gen_value(st, n)
         [] n.k = "Unary" -> UnaryExprAST_gen_value(st, n)
         [] n.k = "MethodCall" -> MethodCallExprAST_gen_value(st, n)
         [] n.k = "String" -> StringExprAST_gen_value(st, n)

\* ---------------------------------------------------------------------------
\* Top-level emission (gen_toplevel).  A module symbol is a function or a
\* global; LLVM keeps symbol names unique, a symbol added under a taken name
\* is renamed, so a symbol is named by <<name, k>> with k = 0 for the first.
\* A top-level state t carries the module, curr_named_variables, the
\* instruction counter and the error flag.
\* ---------------------------------------------------------------------------
Taken(mod, name) == Cardinality({j \in 1..Len(mod) : mod[j].name[1] = name})
\* LLVMGetNamedFunction: index of the function called name, 0 for nullptr
GetNamedFunction(mod, name) ==
  IF \E j \in 1..Len(mod) : mod[j].name = <<name, 0>> /\ mod[j].kind = "func"
  THEN CHOOSE j \in 1..Len(mod) : mod[j].name = <<name, 0>> /\ mod[j].kind = "func"
  ELSE 0
TopState(mod, named_variables, n, wild) ==
  [module |-> mod, vars |-> named_variables, n |-> n, err |-> "", func |-> 0,
   wild |-> wild]

\* PrototypeAST::codegen
PrototypeAST_codegen(t, proto) ==
  LET f == [kind |-> "func", name |-> <<proto.name, Taken(t.module, proto.name)>>,
            params |-> proto.arg_names, blocks |-> <<>>, bodies |-> 0]
      idx == Len(t.module) + 1
  IN [t EXCEPT !.module = Append(@, f),
               !.vars[proto.name] =
                  ConstValueWithPtr(proto.type, <<"func", idx>>, <<"func", idx>>),
               !.func = idx]

\* LetExprAST::gen_declare
LetExprAST_gen_declare(t, let) ==
  LET g == [kind |-> "global", name |-> <<let.id, Taken(t.module, let.id)>>,
            params |-> <<>>, blocks |-> <<>>, bodies |-> 0]
      idx == Len(t.module) + 1
  IN [t EXCEPT !.module = Append(@, g),
               !.vars[let.id] = BasicLoadValue(let.type, <<"global", idx>>),
               !.func = idx]

\* the instructions of a list of blocks
InstSet(blocks) ==
  UNION {{blocks[b].insts[i] : i \in 1..Len(blocks[b].insts)} : b \in 1..Len(blocks)}

RECURSIVE IsConstant(_, _)
\* whether an LLVMValueRef is an llvm::Constant: a literal, a null, the address
\* of a function or global, or an operation over constants (the IRBuilder
\* folds it instead of inserting an instruction)
IsConstant(ref, insts) ==
  CASE ref[1] \in {"const", "null", "func", "global"} -> TRUE
    [] ref[1] = "inst" ->
         \E ins \in insts :
            /\ ins.id = ref[2]
            /\ ins.op \notin {"Load", "Alloca", "Store", "Call", "Phi"}
            /\ \A j \in 1..Len(ins.args) : IsConstant(ins.args[j], insts)
    [] OTHER -> FALSE

NoInit == [set |-> FALSE]

\* LetExprAST::gen_toplevel.  The initializer is lowered wherever the builder
\* was left (stray keeps what it built).  LLVMSetInitializer casts its
\* argument to llvm::Constant: handed an instruction, an LLVM built with
\* assertions aborts there, one built without installs it (asserts chooses)
LetExprAST_gen_toplevel(t, n, asserts) ==
  LET g == [kind |-> "global", name |-> <<n.id, Taken(t.module, n.id)>>,
            params |-> <<>>, blocks |-> <<>>, bodies |-> 0]
      idx == Len(t.module) + 1
      bound_var == BasicLoadValue(n.type, <<"global", idx>>)
      out(nv, cnt, err, init, stray) ==
        [module |-> Append(t.module, g), vars |-> nv, n |-> cnt, err |-> err,
         func |-> idx, init |-> init, stray |-> stray]
  IN IF n.value = NoNode
     THEN out([t.vars EXCEPT ![n.id] = bound_var], t.n, "", NoInit, <<>>)
     ELSE Bind(gen_value(NewState(t.vars, t.n), n.value), LAMBDA val :
          IF val.err # "" THEN out(val.vars, val.n, val.err, NoInit, val.blocks)
          ELSE IF val.v.kind \notin {"ConstValue", "ConstValueWithPtr"}
          THEN out(val.vars, val.n, "Global variable needs a constant value inside it",
                   NoInit, val.blocks)
          ELSE Bind(gen_val(val, val.v), LAMBDA l :
               IF ~IsConstant(l.r, InstSet(l.blocks)) /\ asserts
               THEN out(l.vars, l.n, "cast<Constant>() argument of incompatible type",
                        NoInit, l.blocks)
               ELSE out([l.vars EXCEPT ![n.id] = bound_var], l.n, "",
                        [set |-> TRUE, ref |-> l.r,
                         constant |-> IsConstant(l.r, InstSet(l.blocks))],
                        l.blocks)))

\* DeclareExprAST::gen_toplevel (its register_declare is applied by the action)
DeclareExprAST_gen_toplevel(t, d) ==
  IF d.let # NoNode THEN LetExprAST_gen_declare(t, d.let)
  ELSE PrototypeAST_codegen(t, d.prot)

RECURSIVE BindParams(_, _, _, _, _)
\* the loop of FunctionAST::gen_toplevel binding each parameter name of the
\* function found; when that function was declared with more parameters than
\* this prototype has, proto->arg_types[i] is read past its end: wild
BindParams(named_variables, params, arg_types, i, wild) ==
  IF i > Len(params) THEN named_variables
  ELSE BindParams([named_variables EXCEPT
                     ![params[i]] =
                        ConstValue(IF i <= Len(arg_types) THEN arg_types[i] ELSE wild,
                                   <<"param", params[i]>>)],
                  params, arg_types, i + 1, wild)

\* FunctionAST::gen_toplevel, its first lines: the function of an earlier
\* declare, or a new one
LocateFunction(t, fn) ==
  IF GetNamedFunction(t.module, fn.proto.name) = 0
  THEN PrototypeAST_codegen(t, fn.proto)
  ELSE [t EXCEPT !.func = GetNamedFunction(t.module, fn.proto.name)]

\* FunctionAST::gen_toplevel, from the entry block to the return
EmitBody(t1, fn) ==
  Bind(NewState(BindParams(t1.vars, t1.module[t1.func].params,
                           fn.proto.arg_types, 1, t1.wild), t1.n), LAMBDA s0 :
  Bind(gen_value(s0, fn.body), LAMBDA s1 :
  Bind(gen_val(s1, cast_to(s1.v, fn.proto.type.return_type)), LAMBDA s2 :
  Bind(Build(s2, "Ret", fn.proto.type.return_type, <<s2.r>>), LAMBDA s3 :
    [t1 EXCEPT !.module[t1.func].blocks = s3.blocks,
               !.module[t1.func].bodies = @ + 1,
               !.vars = s3.vars, !.n = s3.n, !.err = s3.err]))))

\* gen_toplevel as it would be without the basic-block count check
FunctionAST_gen_toplevel_unchecked(t, fn) ==
  Bind(LocateFunction(t, fn), LAMBDA t1 : EmitBody(t1, fn))

\* FunctionAST::gen_toplevel
FunctionAST_gen_toplevel(t, fn) ==
  Bind(LocateFunction(t, fn), LAMBDA t1 :
    IF Len(t1.module[t1.func].blocks) # 0
    THEN [t1 EXCEPT !.err = "Function cannot be redefined."]
    ELSE EmitBody(t1, fn))

\* ---------------------------------------------------------------------------
\* Building and emitting expressions.  Leaf constructors push their node on
\* operands; a parent constructor takes all operands as its children (a node
\* owns its children); Emit lowers the finished expression into a fresh block.
\* ---------------------------------------------------------------------------
NoRes == [done |-> FALSE]
NoFatal == [msg |-> ""]
Fatal(msg, at, what) == [msg |-> msg, at |-> at, what |-> what]
NoLast == [done |-> FALSE]
NoWhile == [kind |-> "none"]
NoExec == [on |-> FALSE]
NoLex == [on |-> FALSE]
TypeChars == {"i", "l"}
IntLits == {2}
DeclTypes == {NoType, I64, PointerType(I32)}
BinOps == {"+", "-", "*", "<", "="}

\* receiver types of the methods drawn as inputs, and every key the name
\* tables can come to hold: the names, this, and the mangled method names
RecvTypes == {I32, I64}
TableNames ==
  Names \cup {"this"}
  \cup {get_complete_extension_name(T, m) : T \in RecvTypes, m \in Names}

AstIdle ==
  /\ curr_named_var_types = [nm \in TableNames |-> NoType]
  /\ curr_named_variables = [nm \in TableNames |-> NoValue]
  /\ operands = <<>>
  /\ node = NoNode
  /\ last = NoLast
  /\ irn = 0
  /\ fatal = NoFatal
  /\ bound = [nm \in Names |-> "none"]
  /\ declared = {}
  /\ module = <<>>

\* a constructor's outcome: the leaf is pushed, or the run ends
PushLeaf(c, at, what) ==
  /\ curr_named_var_types' = c.nvt
  /\ IF c.err = "" THEN /\ operands' = Append(operands, c.node)
                        /\ fatal' = fatal
     ELSE /\ operands' = operands
          /\ fatal' = Fatal(c.err, at, what)
  /\ last' = NoLast
  /\ UNCHANGED <<curr_named_variables, node, irn, bound, declared, module>>

\* a constructor's outcome: the parent replaces its children, or the run ends
\* leaving the rejected children in operands
SetNode(c, at, what) ==
  /\ curr_named_var_types' = c.nvt
  /\ IF c.err = "" THEN /\ operands' = <<>>
                        /\ node' = c.node
                        /\ fatal' = fatal
     ELSE /\ operands' = operands
          /\ node' = node
          /\ fatal' = Fatal(c.err, at, what)
  /\ declared' = IF c.err = "" /\ at \in {"LetExprAST", "PrototypeAST", "DeclareExprAST"}
                 THEN declared \cup what ELSE declared
  /\ last' = NoLast
  /\ UNCHANGED <<curr_named_variables, irn, bound, module>>

\* room for one more leaf: inside an expression up to MaxOperands leaves wait
\* for their parent; at top level (single) a let's initializer and a function
\* body (after its prototype) are one leaf each
LeafRoom(single) ==
  \/ /\ node = NoNode
     /\ IF single THEN operands = <<>> ELSE Len(operands) < MaxOperands
  \/ node.k = "Prototype" /\ operands = <<>>

NewNumber(type_char, val, single) ==
  /\ fatal = NoFatal /\ LeafRoom(single)
  /\ PushLeaf(NumberExprAST(val, type_char, FALSE, 10, curr_named_var_types),
              "NumberExprAST", {})
  /\ UNCHANGED <<castVars, runVars, lexVars>>

NewVariable(name, single) ==
  /\ fatal = NoFatal /\ LeafRoom(single)
  /\ PushLeaf(VariableExprAST(name, curr_named_var_types), "VariableExprAST", {name})
  /\ UNCHANGED <<castVars, runVars, lexVars>>

NewLet(id, type, constant) ==
  /\ fatal = NoFatal /\ node = NoNode /\ Len(operands) <= 1
  /\ SetNode(LetExprAST(id, type, IF Len(operands) = 1 THEN operands[1] ELSE NoNode,
                        constant, FALSE, curr_named_var_types), "LetExprAST", {id})
  /\ UNCHANGED <<castVars, runVars, lexVars>>

NewBinary(op) ==
  /\ fatal = NoFatal /\ node = NoNode /\ Len(operands) = 2
  /\ SetNode(BinaryExprAST(op, operands[1], operands[2], curr_named_var_types),
             "BinaryExprAST", {})
  /\ UNCHANGED <<castVars, runVars, lexVars>>

NewIf ==
  /\ fatal = NoFatal /\ node = NoNode /\ Len(operands) \in {2, 3}
  /\ SetNode(IfExprAST("If", operands[1], operands[2],
                       IF Len(operands) = 3 THEN operands[3] ELSE NoNode,
                       curr_named_var_types), "IfExprAST", {})
  /\ UNCHANGED <<castVars, runVars, lexVars>>

\* the expression to lower: the finished parent, or a lone leaf
Statement == IF node # NoNode THEN node ELSE operands[1]

\* gen_value() of the finished expression
Emit ==
  /\ fatal = NoFatal
  /\ node.k \in {"Let", "Binary", "If"} \/ (node = NoNode /\ Len(operands) = 1)
  /\ irn < MaxIrn
  /\ LET n == Statement
         s == gen_value(NewState(curr_named_variables, irn), n)
     IN /\ last' = [done |-> TRUE, node |-> n, v |-> s.v, err |-> s.err,
                    blocks |-> s.blocks, cur |-> s.cur]
        /\ curr_named_variables' = s.vars
        /\ irn' = s.n
        /\ fatal' = IF s.err = "" THEN fatal ELSE Fatal(s.err, "gen_value", {})
        /\ bound' = IF n.k = "Let" /\ s.err = ""
                    THEN [bound EXCEPT ![n.id] = IF n.constant THEN "const" ELSE "let"]
                    ELSE bound
  /\ node' = NoNode
  /\ operands' = <<>>
  /\ UNCHANGED <<curr_named_var_types, declared, module>>
  /\ UNCHANGED <<castVars, runVars, lexVars>>

\* ---------------------------------------------------------------------------
\* Top-level declarations: prototypes, declares and function definitions
\* ---------------------------------------------------------------------------
ArgLists == {<<>>} \cup {<<nm>> : nm \in Names}
RetTypes == {NoType, I32}
\* what a read past the end of arg_types may yield
WildTypes == {NoType, I32}
\* declared types of the lets drawn at top level (NoType: none written)
GlobalTypes == {NoType, I32}

NewPrototype(name, arg_names, return_type) ==
  /\ fatal = NoFatal /\ node = NoNode /\ operands = <<>>
  /\ SetNode(PrototypeAST(name, arg_names, [j \in 1..Len(arg_names) |-> I32],
                          return_type, FALSE, curr_named_var_types),
             "PrototypeAST", {name} \cup {arg_names[j] : j \in 1..Len(arg_names)})
  /\ UNCHANGED <<castVars, runVars, lexVars>>

NewDeclare ==
  /\ fatal = NoFatal /\ node.k \in {"Let", "Prototype"} /\ operands = <<>>
  /\ SetNode(DeclareExprAST(node, curr_named_var_types), "DeclareExprAST",
             {IF node.k = "Let" THEN node.id ELSE node.name})
  /\ UNCHANGED <<castVars, runVars, lexVars>>

NewFunction ==
  /\ fatal = NoFatal /\ node.k = "Prototype" /\ Len(operands) = 1
  /\ SetNode(FunctionAST(node, operands[1], curr_named_var_types), "FunctionAST", {})
  /\ UNCHANGED <<castVars, runVars, lexVars>>

\* gen_toplevel() of the finished Declare or Function
EmitTopLevel ==
  /\ fatal = NoFatal
  /\ node.k \in {"Declare", "Function"}
  /\ irn < MaxIrn /\ Len(module) < MaxSymbols
  /\ \E wild \in WildTypes :
     LET t0 == TopState(module, curr_named_variables, irn, wild)
         pre == GetNamedFunction(module, IF node.k = "Function" THEN node.proto.name
                                         ELSE "")
         t == IF node.k = "Declare" THEN DeclareExprAST_gen_toplevel(t0, node)
              ELSE FunctionAST_gen_toplevel(t0, node)
     IN /\ last' = [done |-> TRUE, node |-> node, err |-> t.err, func |-> t.func,
                    found |-> pre,
                    pre |-> IF pre = 0 THEN "absent"
                            ELSE IF Len(module[pre].blocks) = 0 THEN "declared"
                            ELSE "defined"]
        /\ module' = t.module
        /\ curr_named_variables' = t.vars
        /\ irn' = t.n
        /\ fatal' = IF t.err = "" THEN fatal ELSE Fatal(t.err, "gen_toplevel", {})
        /\ curr_named_var_types' =
             IF node.k = "Declare" THEN register_declare(node, curr_named_var_types)
             ELSE curr_named_var_types
  /\ node' = NoNode
  /\ operands' = <<>>
  /\ UNCHANGED <<bound, declared>>
  /\ UNCHANGED <<castVars, runVars, lexVars>>

\* CallExprAST over the waiting leaves: the callee, then its arguments
NewCall ==
  /\ fatal = NoFatal /\ node = NoNode /\ Len(operands) >= 1
  /\ SetNode(CallExprAST(operands[1], Tail(operands), curr_named_var_types),
             "CallExprAST", {})
  /\ UNCHANGED <<castVars, runVars, lexVars>>

\* a method prototype  fun (T) m(args): i32 ; its parameters are int32
MethodArgLists == {<<>>, <<"x">>}
NewMethodPrototype(this_type, name, arg_names) ==
  /\ fatal = NoFatal /\ node = NoNode /\ operands = <<>>
  /\ LET c == PrototypeAST_this(this_type, name, arg_names,
                                [j \in 1..Len(arg_names) |-> I32], I32, FALSE,
                                curr_named_var_types)
     IN /\ curr_named_var_types' = c.nvt
        /\ last' = [done |-> TRUE, kind |-> "prototype", this_type |-> this_type,
                    name |-> name, k |-> Len(arg_names), node |-> c.node, err |-> c.err]
        /\ declared' = declared \cup {c.node.name}
  /\ UNCHANGED <<curr_named_variables, operands, node, irn, fatal, bound, module>>
  /\ UNCHANGED <<castVars, runVars, lexVars>>

\* recv.name(args) over the waiting leaves: the receiver, then the arguments
NewMethodCall(name) ==
  /\ fatal = NoFatal /\ node = NoNode /\ Len(operands) >= 1
  /\ LET c == MethodCallExprAST(name, operands[1], Tail(operands), curr_named_var_types)
     IN /\ curr_named_var_types' = c.nvt
        /\ last' = [done |-> TRUE, kind |-> "call", name |-> name,
                    source |-> operands[1], args |-> Tail(operands),
                    node |-> c.node, err |-> c.err]
        /\ fatal' = IF c.err = "" THEN fatal ELSE Fatal(c.err, "MethodCallExprAST", {})
  /\ operands' = <<>>
  /\ UNCHANGED <<curr_named_variables, node, irn, bound, declared, module>>
  /\ UNCHANGED <<castVars, runVars, lexVars>>

\* a global let; its initializer is the finished expression, a lone leaf, or
\* absent
NewGlobalLet(id, type) ==
  /\ fatal = NoFatal
  /\ \/ node.k \in {"Binary", "Call"} /\ operands = <<>>
     \/ node = NoNode /\ Len(operands) <= 1
  /\ SetNode(LetExprAST(id, type,
                        IF node # NoNode THEN node
                        ELSE IF Len(operands) = 1 THEN operands[1] ELSE NoNode,
                        FALSE, TRUE, curr_named_var_types), "LetExprAST", {id})
  /\ UNCHANGED <<castVars, runVars, lexVars>>

\* gen_toplevel() of the finished global let
EmitGlobal ==
  /\ fatal = NoFatal
  /\ node.k = "Let" /\ node.global
  /\ irn < MaxIrn /\ Len(module) < MaxSymbols
  /\ \E asserts \in BOOLEAN :
     LET t == LetExprAST_gen_toplevel(TopState(module, curr_named_variables, irn, NoType),
                                      node, asserts)
     IN /\ last' = [done |-> TRUE, node |-> node, err |-> t.err, func |-> t.func,
                    init |-> t.init, stray |-> t.stray]
        /\ module' = t.module
        /\ curr_named_variables' = t.vars
        /\ irn' = t.n
        /\ fatal' = IF t.err = "" THEN fatal ELSE Fatal(t.err, "gen_toplevel", {})
  /\ node' = NoNode
  /\ operands' = <<>>
  /\ UNCHANGED <<curr_named_var_types, bound, declared>>
  /\ UNCHANGED <<castVars, runVars, lexVars>>

GlobalOps == {"+", "<"}

NextGlobal ==
  \/ \E c \in TypeChars, val \in IntLits : NewNumber(c, val, FALSE)
  \/ \E nm \in Names : NewVariable(nm, FALSE)
  \/ \E op \in GlobalOps : NewBinary(op)
  \/ NewCall
  \/ \E id \in Names, t \in GlobalTypes : NewGlobalLet(id, t)
  \/ \E nm \in Names : NewPrototype(nm, <<>>, I32)
  \/ NewDeclare
  \/ EmitTopLevel
  \/ EmitGlobal

NextTop ==
  \/ \E c \in TypeChars, val \in IntLits : NewNumber(c, val, TRUE)
  \/ \E nm \in Names : NewVariable(nm, TRUE)
  \/ \E id \in Names, t \in GlobalTypes : NewLet(id, t, FALSE)
  \/ \E nm \in Names, args \in ArgLists, rt \in RetTypes : NewPrototype(nm, args, rt)
  \/ NewDeclare
  \/ NewFunction
  \/ EmitTopLevel

InitAst ==
  /\ AstIdle
  /\ castSrc = NoValue /\ castTo = NoType /\ castRes = NoRes
  /\ whileIn = NoWhile /\ exec = NoExec
  /\ lex = NoLex /\ tok = "none"

NextAst ==
  \/ \E c \in TypeChars, val \in IntLits : NewNumber(c, val, FALSE)
  \/ \E nm \in Names : NewVariable(nm, FALSE)
  \/ \E id \in Names, t \in DeclTypes, constant \in BOOLEAN : NewLet(id, t, constant)
  \/ \E op \in BinOps : NewBinary(op)
  \/ NewIf
  \/ Emit

Spec == InitAst /\ [][NextAst]_vars
SpecTop == InitAst /\ [][NextTop]_vars
SpecGlobal == InitAst /\ [][NextGlobal]_vars

\* method prototypes and method calls
NextMethod ==
  \/ \E tc \in TypeChars, v \in IntLits : NewNumber(tc, v, FALSE)
  \/ \E nm \in {"x", "this"} : NewVariable(nm, FALSE)
  \/ \E T \in RecvTypes, m \in Names, args \in MethodArgLists :
       NewMethodPrototype(T, m, args)
  \/ \E m \in Names : NewMethodCall(m)
SpecMethod == InitAst /\ [][NextMethod]_vars

\* ---------------------------------------------------------------------------
\* Properties of expression construction and emission
\* ---------------------------------------------------------------------------
\* all instructions of the emission just done, in block order
RECURSIVE Flatten(_, _)
Flatten(blocks, i) ==
  IF i > Len(blocks) THEN <<>> ELSE blocks[i].insts \o Flatten(blocks, i + 1)
LastInsts == Flatten(last.blocks, 1)
HasInst(id) == \E j \in 1..Len(LastInsts) : LastInsts[j].id = id
InstById(id) == LastInsts[CHOOSE j \in 1..Len(LastInsts) : LastInsts[j].id = id]
IsInst(ref) == ref[1] = "inst" /\ HasInst(ref[2])
IsIntType(t) == t.tt = "Number" /\ ~t.is_floating
Emitted == last.done /\ last.err = ""

\* ref is the loaded value of the leaf n: its constant, or a load of its slot
OperandDenotes(ref, n) ==
  IF n.k = "Number" THEN ref = <<"const", n.type, n.val>>
  ELSE /\ n.k = "Variable"
       /\ LET v == curr_named_variables[n.name]
          IN IF v.kind = "BasicLoadValue"
             THEN /\ IsInst(ref)
                  /\ InstById(ref[2]).op = "Load"
                  /\ InstById(ref[2]).args = <<v.variable>>
             ELSE v.kind = "ConstValue" /\ ref = v.val

\* C1: for every Let, bound Variable reference and assignment emitted without a
\* fatal error, the type of the returned Value equals the node's result type.
C1Covered(n) ==
  \/ n.k = "Let"
  \/ n.k = "Variable" /\ bound[n.name] # "none"
  \/ n.k = "Binary" /\ n.op = "="
C1_EmitTypeIsResultType ==
  (Emitted /\ C1Covered(last.node)) => eq(get_type(last.v), last.node.type)

\* C2: a constructed binary op has two numeric operands, or a pointer and a
\* number under + or -, or is an assignment to an assignable left-hand side;
\* every other combination was rejected by the constructor.
Assignable(n) == n.k = "Variable"
C2_BinaryOperandShapes ==
  node.k = "Binary" =>
    LET l == node.LHS.type.tt
        r == node.RHS.type.tt
    IN \/ l = "Number" /\ r = "Number"
       \/ {l, r} = {"Pointer", "Number"} /\ node.op \in {"+", "-"}
       \/ node.op = "=" /\ Assignable(node.LHS)

\* C3: a non-comparison binary op on integers of different widths has the wider
\* operand's type as result type, and its lowering widens the narrower operand.
MixedWidth(n) ==
  /\ n.k = "Binary" /\ n.op # "=" /\ ~IsComparison(n.op)
  /\ IsIntType(n.LHS.type) /\ IsIntType(n.RHS.type)
  /\ n.LHS.type.bits # n.RHS.type.bits
Wider(n) == IF n.LHS.type.bits > n.RHS.type.bits THEN n.LHS.type ELSE n.RHS.type
Narrower(n) == IF n.LHS.type.bits > n.RHS.type.bits THEN n.RHS ELSE n.LHS
WidensNarrower(n) ==
  \E j \in 1..Len(LastInsts) :
    /\ LastInsts[j].op \in {"SExtOrTrunc", "ZExtOrTrunc"}
    /\ LastInsts[j].ty = Wider(n)
    /\ OperandDenotes(LastInsts[j].args[1], Narrower(n))
    /\ <<"inst", LastInsts[j].id>> \in
         {LastInsts[Len(LastInsts)].args[a] : a \in 1..2}
C3_WiderOperandType ==
  /\ MixedWidth(node) => node.type = Wider(node)
  /\ (Emitted /\ MixedWidth(last.node)) =>
        (last.node.type = Wider(last.node) /\ WidensNarrower(last.node))

\* C4: p + n, n + p and p - n on a Pointer(T) p and an integer n have type
\* Pointer(T) and lower to a GEP over T from p, indexed by n for + and by
\* 0 - n for -.
PtrArith(n) ==
  /\ n.k = "Binary"
  /\ \/ n.op \in {"+", "-"} /\ n.LHS.type.tt = "Pointer" /\ IsIntType(n.RHS.type)
     \/ n.op = "+" /\ IsIntType(n.LHS.type) /\ n.RHS.type.tt = "Pointer"
PtrOperand(n) == IF n.LHS.type.tt = "Pointer" THEN n.LHS ELSE n.RHS
NumOperand(n) == IF n.LHS.type.tt = "Pointer" THEN n.RHS ELSE n.LHS
IsNegationOf(ref, n) ==
  /\ IsInst(ref)
  /\ InstById(ref[2]).op = "Sub"
  /\ InstById(ref[2]).args[1] = <<"const", U32, 0>>
  /\ OperandDenotes(InstById(ref[2]).args[2], n)
\* the number an index operand denotes when it is built from literals
IndexValue(ref) ==
  IF ref[1] = "const" THEN ref[3]
  ELSE InstById(ref[2]).args[1][3] - InstById(ref[2]).args[2][3]
C4_PointerArithmetic ==
  (Emitted /\ PtrArith(last.node)) =>
    LET n == last.node
        P == PtrOperand(n)
        N == NumOperand(n)
        g == LastInsts[Len(LastInsts)]
    IN /\ n.type = P.type
       /\ last.v.kind = "ConstValue"
       /\ last.v.type = P.type
       /\ last.v.val = <<"inst", g.id>>
       /\ g.op = "GEP"
       /\ g.ty = P.type.points_to
       /\ Len(g.args) = 2
       /\ OperandDenotes(g.args[1], P)
       /\ IF n.op = "+" THEN OperandDenotes(g.args[2], N) ELSE IsNegationOf(g.args[2], N)
       /\ N.k = "Number" => IndexValue(g.args[2]) = (IF n.op = "+" THEN N.val ELSE 0 - N.val)
C4_Witness ==
  /\ Emitted /\ PtrArith(last.node) /\ last.node.op = "-"
  /\ NumOperand(last.node).k = "Number"

\* C6 (as stated): an if written without else is constructed only when the
\* then arm's type is nullable.
Nullable(t) == t.tt \in {"Pointer", "Null"}
C6_NoElseNeedsNullable ==
  (node.k = "If" /\ node.elze.k = "Null") => Nullable(node.then.type)
\* C6 (amended): an if without else always constructs, its else arm being a
\* null expression of the then arm's type; with both arms it constructs exactly
\* when the arm types are equal; the emitted value is a phi over the blocks
\* that end the two arms.
C6_IfConstruction ==
  /\ (fatal # NoFatal /\ fatal.at = "IfExprAST") =>
        (Len(operands) = 3 /\ neq(operands[2].type, operands[3].type))
  /\ node.k = "If" =>
        /\ node.type = node.then.type
        /\ eq(node.then.type, node.elze.type)
        /\ node.elze.k = "Null" => node.elze = NullExprAST(node.then.type)
  /\ (Emitted /\ last.node.k = "If") =>
        /\ last.v.kind = "PHIValue"
        /\ last.blocks[last.v.a_bb].name = "ifthen"
        /\ last.blocks[last.v.b_bb].name = "ifelse"
        /\ last.blocks[last.cur].name = "ifmerge"
        /\ \A b \in {last.v.a_bb, last.v.b_bb} :
              LET is == last.blocks[b].insts
              IN is[Len(is)].op = "Br" /\ is[Len(is)].args = <<<<"block", last.cur>>>>
C6_Witness ==
  /\ Emitted /\ last.node.k = "If" /\ last.node.elze.k = "Null"
  /\ ~Nullable(last.node.then.type)

\* C10: an assignment to a name bound by a constant local let is fatal and
\* emits no store.
C10_ConstAssignFatal ==
  (/\ last.done /\ last.node.k = "Binary" /\ last.node.op = "="
   /\ last.node.LHS.k = "Variable" /\ bound[last.node.LHS.name] = "const")
  => /\ last.err # ""
     /\ \A j \in 1..Len(LastInsts) : LastInsts[j].op # "Store"

\* ---------------------------------------------------------------------------
\* Properties of top-level declarations (SpecTop)
\* ---------------------------------------------------------------------------
\* C7: a Variable reference to a name is constructed only after a Let, a
\* Prototype (function or parameter name) or a Declare naming it was
\* constructed; a name nothing has declared yet has no entry in the type
\* table, and the reference that fails is one the table has no entry for.
C7_ReferenceNeedsEarlierDeclaration ==
  /\ \A nm \in Names : nm \notin declared => curr_named_var_types[nm] = NoType
  /\ \A i \in 1..Len(operands) :
        operands[i].k = "Variable" => operands[i].name \in declared
  /\ (fatal # NoFatal /\ fatal.at = "VariableExprAST") =>
        \A nm \in fatal.what : curr_named_var_types[nm] = NoType
C7_Witness ==
  /\ fatal # NoFatal /\ fatal.at = "VariableExprAST"
  /\ fatal.what \cap declared = {}
  /\ declared # {}

\* C8: no function of the module ever receives two bodies: a definition for a
\* name whose function already has blocks is fatal, and a definition after a
\* declare alone is not rejected and fills in the declared function.
C8_NoSecondBody ==
  /\ \A j \in 1..Len(module) : module[j].bodies <= 1
  /\ (last.done /\ last.node.k = "Function" /\ last.pre = "defined") =>
        /\ last.err = "Function cannot be redefined."
        /\ fatal # NoFatal
  /\ (last.done /\ last.node.k = "Function" /\ last.pre = "declared") =>
        /\ last.err # "Function cannot be redefined."
        /\ last.func = last.found
        /\ module[last.func].bodies = 1
        /\ Len(module[last.func].blocks) > 0
        /\ last.node.body.k = "Number" => last.err = ""
C8_Witness ==
  /\ last.done /\ last.node.k = "Function" /\ last.pre = "defined"
  /\ fatal # NoFatal /\ fatal.msg = "Function cannot be redefined."
  /\ \E j \in 1..Len(module) : module[j].bodies = 1

\* ---------------------------------------------------------------------------
\* A while loop compiled and run.  The program is
\*     fun x() { let y = start; while (y < limit) y = y + 1 else other }
\* or, with a floating condition,
\*     fun x() { let y = start.0; while (y) y = y - 1.0 else other.0 }
\* built by the constructors in parsing order, emitted by gen_toplevel, and
\* run one IR instruction at a time.  Floating values are whole numbers here.
\* ---------------------------------------------------------------------------
ElseLits == {7, 9}
WhileInputs ==
  {[kind |-> "int", start |-> a, limit |-> b, other |-> e] :
     a \in 0..MaxCount, b \in 0..MaxCount, e \in ElseLits}
  \cup {[kind |-> "float", start |-> a, limit |-> 0, other |-> e] :
          a \in 0..MaxCount, e \in ElseLits}

\* the FunctionAST of the program, as [err, node, nvt]
WhileProgram(in, nvt) ==
  LET tc == IF in.kind = "float" THEN "d" ELSE "i"
      dot == in.kind = "float"
  IN
  Bind(PrototypeAST("x", <<>>, <<>>, NoType, FALSE, nvt), LAMBDA proto :
  Bind(LetExprAST("y", NoType, NumberExprAST(in.start, tc, dot, 10, proto.nvt).node,
                  FALSE, FALSE, proto.nvt), LAMBDA let :
  Bind(IF in.kind = "float" THEN VariableExprAST("y", let.nvt)
       ELSE BinaryExprAST("<", VariableExprAST("y", let.nvt).node,
                          NumberExprAST(in.limit, tc, dot, 10, let.nvt).node, let.nvt),
       LAMBDA cond :
  Bind(BinaryExprAST(IF in.kind = "float" THEN "-" ELSE "+",
                     VariableExprAST("y", let.nvt).node,
                     NumberExprAST(1, tc, dot, 10, let.nvt).node, let.nvt), LAMBDA step :
  Bind(BinaryExprAST("=", VariableExprAST("y", let.nvt).node, step.node, let.nvt),
       LAMBDA body :
  Bind(IfExprAST("While", cond.node, body.node,
                 NumberExprAST(in.other, tc, dot, 10, let.nvt).node, let.nvt),
       LAMBDA while :
  Bind(BlockExprAST(<<let.node, while.node>>, let.nvt), LAMBDA block :
    FunctionAST(proto.node, block.node, let.nvt))))))))

\* the number an operand denotes in environment env
Val(ref, env) ==
  CASE ref[1] = "const" -> ref[3]
    [] ref[1] = "null" -> 0
    [] ref[1] = "inst" -> env[ref[2]]

\* what an arithmetic, comparison or conversion instruction computes
Compute(op, a, b) ==
  CASE op \in {"Add", "FAdd"} -> a + b
    [] op \in {"Sub", "FSub"} -> a - b
    [] op \in {"Mul", "FMul"} -> a * b
    [] op \in {"ICmpSLT", "ICmpULT", "FCmpULT"} -> IF a < b THEN 1 ELSE 0
    [] op \in {"ICmpNE", "FCmpONE", "FCmpUNE"} -> IF a # b THEN 1 ELSE 0
    [] OTHER -> a

\* the LLVM type of an operand of the function being run
RefType(ref) ==
  CASE ref[1] \in {"const", "null"} -> ref[2]
    [] ref[1] = "inst" ->
         (CHOOSE i \in InstSet(module[1].blocks) : i.id = ref[2]).ty
    [] OTHER -> NoType
FloatOps == {"FAdd", "FSub", "FMul", "FCmpULT", "FCmpONE", "FCmpUNE"}
\* a floating instruction over operands that are not of one floating type:
\* LLVM leaves what such an instruction does undefined
IllTyped(ins) ==
  /\ ins.op \in FloatOps
  /\ \/ RefType(ins.args[1]) # RefType(ins.args[2])
     \/ RefType(ins.args[1]).tt # "Number"
     \/ ~RefType(ins.args[1]).is_floating

WhileIdle == whileIn \in WhileInputs /\ exec = NoExec /\ module = <<>>

\* the program is constructed and emitted, the machine stands at the entry
CompileWhile ==
  /\ WhileIdle
  /\ LET fn == WhileProgram(whileIn, curr_named_var_types)
         t == FunctionAST_gen_toplevel(TopState(module, curr_named_variables, irn, NoType),
                                       fn.node)
     IN /\ fn.err = "" /\ t.err = ""
        /\ curr_named_var_types' = fn.nvt
        /\ curr_named_variables' = t.vars
        /\ module' = t.module
        /\ irn' = t.n
        /\ exec' = [on |-> TRUE, blk |-> 1, idx |-> 1, prev |-> 0,
                    env |-> [i \in 1..t.n |-> 0], mem |-> [i \in 1..t.n |-> 0],
                    thens |-> 0, elses |-> 0, halted |-> FALSE, result |-> 0,
                    aborted |-> FALSE]
  /\ UNCHANGED <<operands, node, last, fatal, bound, declared, whileIn>>
  /\ UNCHANGED <<castVars, lexVars>>

\* a branch is taken: the machine enters block target
Enter(target) ==
  LET name == module[1].blocks[target].name
  IN [exec EXCEPT !.prev = exec.blk, !.blk = target, !.idx = 1,
                  !.thens = IF name = "whilethen" THEN @ + 1 ELSE @,
                  !.elses = IF name = "whileelse" THEN @ + 1 ELSE @]

\* the machine executes the instruction it stands at
StepIR ==
  /\ exec.on /\ ~exec.halted
  /\ exec.idx <= Len(module[1].blocks[exec.blk].insts)
  /\ ~IllTyped(module[1].blocks[exec.blk].insts[exec.idx])
  /\ LET ins == module[1].blocks[exec.blk].insts[exec.idx]
         a == ins.args
         set(x) == [exec EXCEPT !.env[ins.id] = x, !.idx = @ + 1]
     IN CASE ins.op = "Alloca" -> exec' = set(ins.id)
          [] ins.op = "Store" ->
               exec' = [exec EXCEPT !.mem[Val(a[2], exec.env)] = Val(a[1], exec.env),
                                    !.idx = @ + 1]
          [] ins.op = "Load" -> exec' = set(exec.mem[Val(a[1], exec.env)])
          [] ins.op = "Phi" ->
               /\ exec.prev \in {a[2][2], a[4][2]}
               /\ exec' = set(IF exec.prev = a[2][2] THEN Val(a[1], exec.env)
                              ELSE Val(a[3], exec.env))
          [] ins.op = "CondBr" ->
               LET target == IF Val(a[1], exec.env) # 0 THEN a[2][2] ELSE a[3][2]
               IN /\ module[1].blocks[target].name = "whilethen" => exec.thens < MaxIter
                  /\ exec' = Enter(target)
          [] ins.op = "Br" -> exec' = Enter(a[1][2])
          [] ins.op = "Ret" ->
               exec' = [exec EXCEPT !.halted = TRUE, !.result = Val(a[1], exec.env)]
          [] OTHER ->
               exec' = set(Compute(ins.op, Val(a[1], exec.env),
                                   IF Len(a) > 1 THEN Val(a[2], exec.env) ELSE 0))
  /\ UNCHANGED <<astVars, castVars, whileIn, lexVars>>

\* the machine stands at an ill-typed floating instruction: the build of LLVM
\* decides whether the compiler stops there or the instruction yields some
\* value
StepIllTyped ==
  /\ exec.on /\ ~exec.halted
  /\ exec.idx <= Len(module[1].blocks[exec.blk].insts)
  /\ IllTyped(module[1].blocks[exec.blk].insts[exec.idx])
  /\ \/ exec' = [exec EXCEPT !.halted = TRUE, !.aborted = TRUE]
     \/ \E x \in 0..MaxCount :
          exec' = [exec EXCEPT !.env[module[1].blocks[exec.blk].insts[exec.idx].id] = x,
                               !.idx = @ + 1]
  /\ UNCHANGED <<astVars, castVars, whileIn, lexVars>>

InitWhile ==
  /\ AstIdle
  /\ castSrc = NoValue /\ castTo = NoType /\ castRes = NoRes
  /\ whileIn \in WhileInputs /\ exec = NoExec
  /\ lex = NoLex /\ tok = "none"

NextWhile == CompileWhile \/ StepIR \/ StepIllTyped
SpecWhile == InitWhile /\ [][NextWhile]_vars

\* C5: when the condition is false at first the body never runs, the else arm
\* runs exactly once and the loop's value is the else arm's; when it is true at
\* first the else arm never runs and the loop's value is the value the body
\* had in its last iteration.  (How many iterations a loop over a floating
\* condition makes is left open here: its back edge is decided by an
\* ill-typed comparison.)
FirstCond(in) == IF in.kind = "float" THEN in.start # 0 ELSE in.start < in.limit
RECURSIVE LastBodyValue(_, _)
\* the value of the body y = y + 1 (y = y - 1.0) in the iteration after which
\* the condition is false, y being the variable's value when the body starts
LastBodyValue(in, y) ==
  LET y1 == IF in.kind = "float" THEN y - 1 ELSE y + 1
  IN IF FirstCond([in EXCEPT !.start = y1]) THEN LastBodyValue(in, y1) ELSE y1
\* the value of the body in the k-th iteration
BodyValue(in, k) == IF in.kind = "float" THEN in.start - k ELSE in.start + k
C5_WhileElseSemantics ==
  exec.on =>
    IF FirstCond(whileIn)
    THEN /\ exec.elses = 0
         /\ (exec.halted /\ ~exec.aborted) =>
              /\ exec.thens >= 1
              /\ exec.result = BodyValue(whileIn, exec.thens)
              /\ whileIn.kind = "int" =>
                   exec.result = LastBodyValue(whileIn, whileIn.start)
    ELSE /\ exec.thens = 0
         /\ exec.elses <= 1
         /\ exec.halted => (exec.elses = 1 /\ exec.result = whileIn.other)
C5_Witness ==
  /\ exec.on /\ exec.halted /\ FirstCond(whileIn)
  /\ exec.thens = 2 /\ exec.result = whileIn.limit

\* the instruction the machine stands at
AtInst == module[1].blocks[exec.blk].insts[exec.idx]
\* the machine stands at the branch that ends the body of the loop
AtBackEdge ==
  /\ exec.on /\ whileIn \in WhileInputs /\ ~exec.halted
  /\ exec.idx <= Len(module[1].blocks[exec.blk].insts)
  /\ module[1].blocks[exec.blk].name = "whilethen"
  /\ AtInst.op = "CondBr"
\* the block that holds instruction id
BlockOf(id) ==
  CHOOSE b \in 1..Len(module[1].blocks) :
    \E i \in 1..Len(module[1].blocks[b].insts) : module[1].blocks[b].insts[i].id = id
\* ref is computed in block b out of operands computed in block b
ComputedIn(ref, b) ==
  ref[1] = "inst" =>
    /\ BlockOf(ref[2]) = b
    /\ \A a \in {(CHOOSE i \in InstSet(module[1].blocks) : i.id = ref[2]).args[j] :
                   j \in 1..Len((CHOOSE i \in InstSet(module[1].blocks) : i.id = ref[2]).args)} :
         a[1] = "inst" => BlockOf(a[2]) = b
\* the variable y of the program, as the memory holds it
LoopVariable ==
  exec.mem[(CHOOSE i \in InstSet(module[1].blocks) : i.op = "Alloca").id]
\* C22: after each run of the body the condition is evaluated again and the
\* back edge is decided by that fresh value, back to the body when it is true
\* and on to the merge block when it is false, for integer and floating
\* conditions alike; the value computed before the loop is not used again.
C22_BackEdgeUsesFreshCondition ==
  AtBackEdge =>
    /\ ComputedIn(AtInst.args[1], exec.blk)
    /\ (Val(AtInst.args[1], exec.env) # 0)
         = FirstCond([whileIn EXCEPT !.start = LoopVariable])
    /\ module[1].blocks[AtInst.args[2][2]].name = "whilethen"
    /\ module[1].blocks[AtInst.args[3][2]].name = "endwhile"

\* ---------------------------------------------------------------------------
\* A prefix operator compiled and run.  The program is
\*     fun x() { <op> lit }      or      fun x() { let y = lit; <op> y }
\* with op one of ! and -, and lit a literal of a floating or integer type.
\* ---------------------------------------------------------------------------
UnaryOps == {"!", "-"}
UnaryTypeChars == {"d", "f", "i", "l"}
UnaryInputs ==
  {[kind |-> "unary", op |-> o, tc |-> c, val |-> v, named |-> b] :
     o \in UnaryOps, c \in UnaryTypeChars, v \in 0..MaxCount, b \in BOOLEAN}

\* the FunctionAST of the program, as [err, node, nvt]
UnaryProgram(in, nvt) ==
  Bind(PrototypeAST("x", <<>>, <<>>, NoType, FALSE, nvt), LAMBDA proto :
  Bind(NumberExprAST(in.val, in.tc, in.tc \in {"d", "f"}, 10, proto.nvt), LAMBDA lit :
    IF in.named
    THEN Bind(LetExprAST("y", NoType, lit.node, FALSE, FALSE, proto.nvt), LAMBDA let :
         Bind(UnaryExprAST(in.op, VariableExprAST("y", let.nvt).node, let.nvt),
              LAMBDA un :
         Bind(BlockExprAST(<<let.node, un.node>>, let.nvt), LAMBDA block :
           FunctionAST(proto.node, block.node, let.nvt))))
    ELSE Bind(UnaryExprAST(in.op, lit.node, proto.nvt), LAMBDA un :
           FunctionAST(proto.node, un.node, proto.nvt))))

UnaryIdle == whileIn \in UnaryInputs /\ exec = NoExec /\ module = <<>>

\* the program is constructed and emitted, the machine stands at the entry
CompileUnary ==
  /\ UnaryIdle
  /\ LET fn == UnaryProgram(whileIn, curr_named_var_types)
         t == FunctionAST_gen_toplevel(TopState(module, curr_named_variables, irn, NoType),
                                       fn.node)
     IN /\ fn.err = "" /\ t.err = ""
        /\ curr_named_var_types' = fn.nvt
        /\ curr_named_variables' = t.vars
        /\ module' = t.module
        /\ irn' = t.n
        /\ exec' = [on |-> TRUE, blk |-> 1, idx |-> 1, prev |-> 0,
                    env |-> [i \in 1..t.n |-> 0], mem |-> [i \in 1..t.n |-> 0],
                    thens |-> 0, elses |-> 0, halted |-> FALSE, result |-> 0,
                    aborted |-> FALSE]
  /\ UNCHANGED <<operands, node, last, fatal, bound, declared, whileIn>>
  /\ UNCHANGED <<castVars, lexVars>>

InitUnary ==
  /\ AstIdle
  /\ castSrc = NoValue /\ castTo = NoType /\ castRes = NoRes
  /\ whileIn \in UnaryInputs /\ exec = NoExec
  /\ lex = NoLex /\ tok = "none"

NextUnary == CompileUnary \/ StepIR \/ StepIllTyped
SpecUnary == InitUnary /\ [][NextUnary]_vars

\* the instruction emitted for the operator, and whether it has been executed
UnaryInst ==
  CHOOSE i \in 1..Len(module[1].blocks[1].insts) :
    module[1].blocks[1].insts[i].op \in {"FCmpONE", "FSub"}
UnaryExecuted == exec.on /\ whileIn \in UnaryInputs /\ ~exec.aborted /\ exec.idx > UnaryInst
\* C19: the value of !n is that of n == 0 (1 when n is zero, 0 otherwise),
\* whatever the numeric type of n.
C19_NotIsEqualZero ==
  (UnaryExecuted /\ whileIn.op = "!") =>
    exec.env[module[1].blocks[1].insts[UnaryInst].id] = (IF whileIn.val = 0 THEN 1 ELSE 0)

\* ---------------------------------------------------------------------------
\* The cast engine on its own: cast(source, to) for every pair drawn from
\* CastTypes, with an addressless (ConstValue) or addressed (BasicLoadValue)
\* source.
\* ---------------------------------------------------------------------------
ElemTypes == {I32, U8}
TupleSeqs == UNION {[1..n -> ElemTypes] : n \in 0..MaxCount}
CastTypes ==
  {I1, I32, U8, F64, NullType, PointerType(I32), PointerType(U8),
   StructType("A", <<I32>>), StructType("B", <<I32>>), StructType("C", <<U8>>),
   FunctionType(I32, <<>>, FALSE)}
  \cup {TupleType(s) : s \in TupleSeqs}
  \cup {ArrayType(e, c) : e \in ElemTypes, c \in 0..MaxCount}
CastSources ==
  {ConstValue(t, <<"param", "v">>) : t \in CastTypes}
  \cup {BasicLoadValue(t, <<"slot", 1>>) : t \in CastTypes}

InitCast ==
  /\ AstIdle
  /\ whileIn = NoWhile /\ exec = NoExec
  /\ lex = NoLex /\ tok = "none"
  /\ castSrc \in CastSources
  /\ castTo \in CastTypes
  /\ castRes = NoRes

\* one materialisation: CastValue::gen_val() == cast(source, to)
DoCast ==
  /\ castRes = NoRes
  /\ LET s == cast(NewState(<<>>, 0), castSrc, castTo)
     IN castRes' = [done |-> TRUE, ok |-> s.err = "", r |-> s.r,
                    insts |-> s.blocks[1].insts]
  /\ UNCHANGED <<castSrc, castTo>>
  /\ UNCHANGED <<astVars, runVars, lexVars>>

\* the next pair is cast
NextPair ==
  /\ castRes # NoRes
  /\ castSrc' \in CastSources
  /\ castTo' \in CastTypes
  /\ castRes' = NoRes
  /\ UNCHANGED <<astVars, runVars, lexVars>>

\* v->cast_to(to) with the builder in a fresh function: the Value made, and
\* what the function holds afterwards
CastTo ==
  /\ castRes = NoRes
  /\ LET st == NewState(<<>>, 0)
     IN castRes' = [done |-> FALSE, made |-> TRUE, v |-> cast_to(castSrc, castTo),
                    insts |-> st.blocks[1].insts, err |-> st.err, cur |-> st.cur]
  /\ UNCHANGED <<castSrc, castTo>>
  /\ UNCHANGED <<astVars, runVars, lexVars>>

\* the Value made by cast_to is loaded: gen_val()
LoadCast ==
  /\ castRes # NoRes /\ ~castRes.done
  /\ LET s == gen_val(NewState(<<>>, 0), castRes.v)
     IN castRes' = [done |-> TRUE, made |-> TRUE, v |-> castRes.v, ok |-> s.err = "",
                    r |-> s.r, insts |-> s.blocks[1].insts]
  /\ UNCHANGED <<castSrc, castTo>>
  /\ UNCHANGED <<astVars, runVars, lexVars>>

NextCast == DoCast \/ NextPair \/ CastTo \/ LoadCast
SpecCast == InitCast /\ [][NextCast]_vars

\* C9: a cast from S to T succeeds exactly when S equals T, or both are
\* numbers, or S is a number and T a pointer, or S is a pointer and T a
\* pointer or a number, or S is an array of E with an address and T a pointer
\* to E, or S is a tuple of N elements all of type U and T an array of N U, or
\* S is null; every other cast is fatal.
CastRule(S, T, addressed) ==
  \/ eq(S, T)
  \/ S.tt = "Number" /\ T.tt \in {"Number", "Pointer"}
  \/ S.tt = "Pointer" /\ T.tt \in {"Pointer", "Number"}
  \/ S.tt = "Array" /\ T.tt = "Pointer" /\ eq(T.points_to, S.elem) /\ addressed
  \/ /\ S.tt = "Tuple" /\ T.tt = "Array" /\ Len(S.types) = T.count
     /\ \A i \in 1..Len(S.types) : eq(S.types[i], T.elem)
  \/ S.tt = "Null"
C9_CastSucceedsExactly ==
  castRes.done =>
    (castRes.ok <=> CastRule(get_type(castSrc), castTo, has_ptr(castSrc)))
C9_Witness ==
  /\ castRes.done /\ castRes.ok
  /\ get_type(castSrc).tt = "Array" /\ castTo.tt = "Pointer"


\* ---------------------------------------------------------------------------
\* Properties of SpecGlobal
\* ---------------------------------------------------------------------------
RECURSIVE ConstantExpression(_)
\* a constant expression: a literal, the name of a function (its address), or
\* arithmetic over constant expressions
ConstantExpression(n) ==
  CASE n.k = "Number" -> TRUE
    [] n.k = "Variable" -> n.type.tt = "Function"
    [] n.k = "Binary" -> n.op # "=" /\ ConstantExpression(n.LHS) /\ ConstantExpression(n.RHS)
    [] OTHER -> FALSE

GlobalEmitted ==
  last.done /\ last.node.k = "Let" /\ last.node.global /\ last.node.value # NoNode

\* C11: emitting a global let with an initializer succeeds only when the
\* initializer emitted a compile-time constant, which is then installed; an
\* initializer that is no constant expression (a call, arithmetic over a
\* variable) is fatal and installs nothing.
C11_GlobalInitializerConstant ==
  GlobalEmitted =>
    /\ last.err = "" => (last.init.set /\ last.init.constant)
    /\ ~ConstantExpression(last.node.value) => (last.err # "" /\ ~last.init.set)

\* ---------------------------------------------------------------------------
\* Properties of SpecMethod
\* ---------------------------------------------------------------------------
TypeText(T) == CASE T = I32 -> "i32" [] T = I64 -> "i64" [] OTHER -> "?"
MethodName(T, m) == "(" \o TypeText(T) \o ")::" \o m
\* C20: a method prototype with receiver type T, name m and k parameters
\* registers, under (T)::m, a function type of k+1 parameters whose last is
\* this of type T; a method call recv.m(a1..ak) looks that very name up, so
\* with the prototype registered it constructs as a call with k+1 arguments
\* whose last is recv.
C20_MethodNameAgreement ==
  /\ \A T \in RecvTypes, m \in Names :
       curr_named_var_types[MethodName(T, m)] # NoType =>
         /\ curr_named_var_types[MethodName(T, m)].tt = "Function"
         /\ curr_named_var_types[MethodName(T, m)].arguments
              [Len(curr_named_var_types[MethodName(T, m)].arguments)] = T
  /\ (last.done /\ last.kind = "prototype") =>
       /\ last.err = ""
       /\ last.node.name = MethodName(last.this_type, last.name)
       /\ curr_named_var_types[MethodName(last.this_type, last.name)] = last.node.type
       /\ Len(last.node.type.arguments) = last.k + 1
       /\ last.node.type.arguments[last.k + 1] = last.this_type
       /\ last.node.arg_names[last.k + 1] = "this"
       /\ curr_named_var_types["this"] = last.this_type
  /\ (last.done /\ last.kind = "call") =>
       IF /\ curr_named_var_types[MethodName(last.source.type, last.name)] # NoType
          /\ Len(curr_named_var_types[MethodName(last.source.type, last.name)].arguments)
               = Len(last.args) + 1
       THEN /\ last.err = ""
            /\ last.node.k = "MethodCall"
            /\ last.node.underlying_call.called.name
                 = MethodName(last.source.type, last.name)
            /\ last.node.underlying_call.args = Append(last.args, last.source)
       ELSE last.err # ""
C20_Witness ==
  /\ last.done /\ last.kind = "call" /\ last.err = ""
  /\ Len(last.args) = 1 /\ last.source.k = "Variable" /\ last.source.type = I64
  /\ Len(last.node.underlying_call.args) = 2

\* ---------------------------------------------------------------------------
\* The lexer (utils.cpp).  A character is a one-character string and EOF the
\* end-of-file value.  A lexer state L holds the globals next_token() fills,
\* the lookahead last_char, src (the characters next_char() has not handed out
\* yet), err (the message of error(), which ends the run), and before: the text
\* that lay ahead when the last call began.
\* ---------------------------------------------------------------------------
EOF == "EOF"
OrdTable ==
  <<<<"0", 48>>, <<"1", 49>>, <<"2", 50>>, <<"3", 51>>, <<"4", 52>>, <<"5", 53>>,
    <<"6", 54>>, <<"7", 55>>, <<"8", 56>>, <<"9", 57>>,
    <<"A", 65>>, <<"B", 66>>, <<"C", 67>>, <<"D", 68>>, <<"E", 69>>, <<"F", 70>>,
    <<"a", 97>>, <<"b", 98>>, <<"c", 99>>, <<"d", 100>>, <<"e", 101>>, <<"f", 102>>,
    <<"g", 103>>, <<"h", 104>>, <<"i", 105>>, <<"l", 108>>, <<"n", 110>>, <<"o", 111>>,
    <<"p", 112>>, <<"r", 114>>, <<"t", 116>>, <<"u", 117>>, <<"x", 120>>, <<"y", 121>>,
    <<" ", 32>>, <<"\n", 10>>, <<"\r", 13>>, <<"\t", 9>>, <<"\"", 34>>, <<"'", 39>>,
    <<"\\", 92>>, <<".", 46>>, <<"=", 61>>, <<"<", 60>>, <<">", 62>>, <<"!", 33>>,
    <<"+", 43>>, <<"-", 45>>, <<"*", 42>>, <<"/", 47>>, <<"%", 37>>, <<"&", 38>>,
    <<"|", 124>>, <<":", 58>>, <<"_", 95>>>>
\* the character's code (EOF is -1)
OrdOf == [c \in {OrdTable[i][1] : i \in DOMAIN OrdTable} |->
            OrdTable[CHOOSE i \in DOMAIN OrdTable : OrdTable[i][1] = c][2]]
Ord(c) == IF c = EOF THEN -1 ELSE OrdOf[c]

isdigit(c) == Ord(c) \in 48..57
isxdigit(c) == Ord(c) \in (48..57) \cup (65..70) \cup (97..102)
isalpha(c) == Ord(c) \in (65..90) \cup (97..122)
isspace(c) == Ord(c) \in {32, 9, 10, 11, 12, 13}
is_alphaish(c) == isalpha(c) \/ isdigit(c) \/ c = "_"

\* next_char(): the next character of the source, EOF from its end on
next_char(L) ==
  [c |-> IF L.src = <<>> THEN EOF ELSE Head(L.src),
   L |-> [L EXCEPT !.src = IF @ = <<>> THEN <<>> ELSE Tail(@)]]
\* last_char = next_char()
Advance(L) == [next_char(L).L EXCEPT !.last_char = next_char(L).c]
\* error(): the process exits
LexFail(L, msg) == [L EXCEPT !.err = msg]
Tok(L, t) == [L |-> L, tok |-> IF L.err # "" THEN "none" ELSE t]

\* the keyword table
keywords(id) ==
  CASE id = <<"i", "f">> -> "T_IF"
    [] id = <<"l", "e", "t">> -> "T_LET"
    [] id = <<"f", "u", "n">> -> "T_FUNCTION"
    [] OTHER -> ""

\* xtoi(c)
xtoi(c) ==
  IF Ord(c) <= 57 THEN Ord(c) - 48
  ELSE IF Ord(c) <= 70 THEN Ord(c) - 65
  ELSE Ord(c) - 97

\* get_escape(escape_char): [L, c, err], c being the char returned
get_escape(L, escape_char) ==
  CASE escape_char = "n" -> [L |-> L, c |-> 10, err |-> ""]
    [] escape_char = "r" -> [L |-> L, c |-> 13, err |-> ""]
    [] escape_char = "t" -> [L |-> L, c |-> 9, err |-> ""]
    [] escape_char = "'" -> [L |-> L, c |-> 39, err |-> ""]
    [] escape_char = "\"" -> [L |-> L, c |-> 34, err |-> ""]
    [] escape_char = "\\" -> [L |-> L, c |-> 92, err |-> ""]
    [] escape_char = "0" -> [L |-> L, c |-> 0, err |-> ""]
    [] escape_char = "x" ->
         Bind(next_char(L), LAMBDA first :
         Bind(next_char(first.L), LAMBDA second :
           IF ~isxdigit(first.c) \/ ~isxdigit(second.c)
           THEN [L |-> second.L, c |-> 0, err |-> "Expected two hex digits after \\x"]
           ELSE [L |-> second.L, c |-> (xtoi(first.c) * 16 + xtoi(second.c)) % 256,
                 err |-> ""]))
    [] OTHER -> [L |-> L, c |-> 0, err |-> "Invalid escape"]

RECURSIVE skip_space(_)
\* while (isspace(last_char)) last_char = next_char();
skip_space(L) == IF isspace(L.last_char) THEN skip_space(Advance(L)) ELSE L

RECURSIVE read_str(_, _)
\* read_str(&is_alphaish), stream holding last_char already
read_str(L, stream) ==
  Bind(Advance(L), LAMBDA L1 :
    IF is_alphaish(L1.last_char) THEN read_str(L1, Append(stream, L1.last_char))
    ELSE [L1 EXCEPT !.identifier_string = stream])

\* next_token, the identifier branch
LexIdentifier(L) ==
  Bind(read_str(L, <<L.last_char>>), LAMBDA L1 :
    IF keywords(L1.identifier_string) # "" THEN Tok(L1, keywords(L1.identifier_string))
    ELSE Tok(L1, "T_IDENTIFIER"))

RECURSIVE num_while_digits(_, _)
\* the loop as it would be if a base-16 literal took decimal digits only
num_while_digits(L, stream) ==
  IF \/ CASE L.num_base \in {16, 10} -> ~(isdigit(L.last_char) \/ L.last_char = ".")
          [] L.num_base = 8 -> Ord(L.last_char) < 48 \/ Ord(L.last_char) > 55
          [] OTHER -> Ord(L.last_char) < 48 \/ Ord(L.last_char) > 49
     \/ L.last_char = "." /\ L.num_has_dot
  THEN [L EXCEPT !.num_value = stream]
  ELSE num_while_digits(Advance([L EXCEPT !.num_has_dot = @ \/ L.last_char = "."]),
                        Append(stream, L.last_char))

RECURSIVE num_while(_, _)
\* next_token, the loop at num_while
num_while(L, stream) ==
  IF \/ CASE L.num_base = 16 -> ~isxdigit(L.last_char)
          [] L.num_base = 10 -> ~(isdigit(L.last_char) \/ L.last_char = ".")
          [] L.num_base = 8 -> Ord(L.last_char) < 48 \/ Ord(L.last_char) > 55
          [] OTHER -> Ord(L.last_char) < 48 \/ Ord(L.last_char) > 49
     \/ L.last_char = "." /\ L.num_has_dot
  THEN [L EXCEPT !.num_value = stream]
  ELSE num_while(Advance([L EXCEPT !.num_has_dot = @ \/ L.last_char = "."]),
                 Append(stream, L.last_char))

\* the prefix test as it would be if only 0x were a prefix
PrefixBase_hex_only(started_with_zero, c) ==
  IF started_with_zero /\ c = "x" THEN 16 ELSE 10

\* the base a prefix letter after a leading zero selects, 10 when none does
PrefixBase(started_with_zero, c) ==
  IF ~started_with_zero THEN 10
  ELSE CASE c = "x" -> 16 [] c = "b" -> 2 [] c = "o" -> 8 [] OTHER -> 10

\* next_token, the number branch
LexNumber(L) ==
  Bind(Advance([L EXCEPT !.num_has_dot = FALSE]), LAMBDA L1 :
  Bind([L1 EXCEPT !.num_base = PrefixBase(L.last_char = "0", L1.last_char)], LAMBDA L2 :
  Bind(num_while(IF L2.num_base # 10 THEN Advance(L2) ELSE L2, <<L.last_char>>),
       LAMBDA L3 :
    IF L3.last_char \in {"d", "l", "f", "i", "u", "b"}
    THEN Tok(Advance([L3 EXCEPT !.num_type = L3.last_char]), "T_NUMBER")
    ELSE Tok([L3 EXCEPT !.num_type = IF L3.num_has_dot THEN "d" ELSE "i"], "T_NUMBER"))))

RECURSIVE str_while(_, _)
\* next_token, the loop of the string branch
str_while(L, stream) ==
  Bind(Advance(L), LAMBDA L1 :
    IF L1.last_char = "\"" THEN [L1 EXCEPT !.string_value = stream]
    ELSE IF L1.last_char = EOF THEN LexFail(L1, "Unexpected EOF in string")
    ELSE IF L1.last_char = "\\" THEN
      Bind(next_char(L1), LAMBDA e :
      Bind(get_escape(e.L, e.c), LAMBDA g :
        IF g.err # "" THEN LexFail(g.L, g.err)
        ELSE str_while(g.L, Append(stream, g.c))))
    ELSE str_while(L1, Append(stream, Ord(L1.last_char))))

\* the string branch as it would be without the suffix
LexString_plain(L) ==
  Bind(str_while(L, <<>>), LAMBDA L1 :
    IF L1.err # "" THEN Tok(L1, "none")
    ELSE Tok(Advance([L1 EXCEPT !.string_type = "CHAR_ARRAY"]), "T_STRING"))

\* next_token, the string branch
LexString(L) ==
  Bind(str_while(L, <<>>), LAMBDA L1 :
    IF L1.err # "" THEN Tok(L1, "none")
    ELSE Bind(Advance(L1), LAMBDA L2 :
      IF L2.last_char = "c" THEN Tok(Advance([L2 EXCEPT !.string_type = "C_STRING"]), "T_STRING")
      ELSE IF L2.last_char = "p"
      THEN Tok(Advance([L2 EXCEPT !.string_type = "PTR_CHAR_ARRAY"]), "T_STRING")
      ELSE Tok([L2 EXCEPT !.string_type = "CHAR_ARRAY"], "T_STRING")))

\* next_token, the char branch
LexChar(L) ==
  Bind(Advance(L), LAMBDA L1 :
    IF L1.last_char \in {EOF, "\n", "\r"} THEN Tok(LexFail(L1, "Unterminated char"), "none")
    ELSE
      Bind(IF L1.last_char = "\\"
           THEN Bind(next_char(L1), LAMBDA e : get_escape(e.L, e.c))
           ELSE [L |-> L1, c |-> Ord(L1.last_char), err |-> ""], LAMBDA g :
        IF g.err # "" THEN Tok(LexFail(g.L, g.err), "none")
        ELSE Bind(next_char(g.L), LAMBDA q :
          IF q.c # "'" THEN Tok(LexFail(q.L, "char with length above 1"), "none")
          ELSE Tok(Advance([q.L EXCEPT !.char_value = g.c]), "T_CHAR"))))

\* the switch under  if (last_char == '=') ; "" when no case matches
eq_token(curr_char) ==
  CASE curr_char = "=" -> "T_EQEQ" [] curr_char = "<" -> "T_LEQ"
    [] curr_char = ">" -> "T_GEQ" [] curr_char = "!" -> "T_NEQ"
    [] curr_char = "+" -> "T_PLUSEQ" [] curr_char = "-" -> "T_MINEQ"
    [] curr_char = "*" -> "T_STAREQ" [] curr_char = "/" -> "T_SLASHEQ"
    [] curr_char = "%" -> "T_PERCENTEQ" [] curr_char = "&" -> "T_ANDEQ"
    [] curr_char = "|" -> "T_OREQ" [] OTHER -> ""
\* the second switch as it would be without the shifts
same_token_no_shift(curr_char) ==
  CASE curr_char = "=" -> "T_EQEQ" [] curr_char = "|" -> "T_LOR"
    [] curr_char = "&" -> "T_LAND" [] curr_char = ":" -> "T_DOUBLE_COLON"
    [] OTHER -> ""
\* the switch under  if (curr_char == last_char) ; "" when no case matches
same_token(curr_char) ==
  CASE curr_char = "=" -> "T_EQEQ" [] curr_char = "|" -> "T_LOR"
    [] curr_char = "&" -> "T_LAND" [] curr_char = "<" -> "T_LSHIFT"
    [] curr_char = ">" -> "T_RSHIFT" [] curr_char = ":" -> "T_DOUBLE_COLON"
    [] OTHER -> ""

RECURSIVE line_comment(_)
\* do last_char = next_char(); while (last_char is no EOF, '\n' or '\r')
line_comment(L) ==
  Bind(Advance(L), LAMBDA L1 :
    IF L1.last_char \notin {EOF, "\n", "\r"} THEN line_comment(L1) ELSE L1)

RECURSIVE block_comment_star(_)
\* the loop as it would be if a star alone closed the comment
block_comment_star(L) ==
  Bind(Advance(L), LAMBDA L1 :
    IF L1.last_char # EOF /\ L1.last_char # "*"
    THEN block_comment_star(L1) ELSE L1)

RECURSIVE block_comment(_)
\* do { last = last_char; last_char = next_char(); }
\* while (last_char != EOF && !(last == '*' && last_char == '/'))
block_comment(L) ==
  Bind(Advance(L), LAMBDA L1 :
    IF L1.last_char # EOF /\ ~(L.last_char = "*" /\ L1.last_char = "/")
    THEN block_comment(L1) ELSE L1)

RECURSIVE next_token(_)
\* next_token, from  int curr_char = last_char  on
LexOperator(L) ==
  Bind(Advance(L), LAMBDA L1 :
    IF L1.last_char = "=" /\ eq_token(L.last_char) # ""
    THEN Tok(Advance(L1), eq_token(L.last_char))
    ELSE IF L.last_char = L1.last_char /\ same_token(L.last_char) # ""
    THEN Tok(Advance(L1), same_token(L.last_char))
    ELSE IF L.last_char = "/" THEN
      IF L1.last_char = "/" THEN next_token(line_comment(L1))
      ELSE IF L1.last_char = "*" THEN next_token(Advance(block_comment(L1)))
      ELSE Tok(L1, L.last_char)
    ELSE Tok(L1, L.last_char))

\* next_token(): [L, tok]
next_token(L) ==
  Bind(skip_space(L), LAMBDA L0 :
    IF L0.last_char = EOF THEN Tok(L0, "T_EOF")
    ELSE IF isalpha(L0.last_char) \/ L0.last_char = "_" THEN LexIdentifier(L0)
    ELSE IF isdigit(L0.last_char) THEN LexNumber(L0)
    ELSE IF L0.last_char = "\"" THEN LexString(L0)
    ELSE IF L0.last_char = "'" THEN LexChar(L0)
    ELSE LexOperator(L0))

\* ---------------------------------------------------------------------------
\* Lexing a source text: inputs of several kinds, one call per step
\* ---------------------------------------------------------------------------
Seqs(S, n) == UNION {[1..k -> S] : k \in 0..n}
NumChars == {"0", "1", "9", "x", "b", "o", ".", "f", "i", " "}
StrChars == {"\"", "h", "c", "p", "\\", "n"}
ComChars == {"/", "*", "x", "\n", " "}
OpChars == {"=", "<", ">", "!", "+", "-", "*", "/", "%", "&", "|", ":", "x"}
HexDigits == {c \in DOMAIN OrdOf : isxdigit(c)}
\* a \x escape in a string or char literal: every pair of hex digits, a
\* character that is none, and a literal cut short
EscInputs ==
  {<<q, "\\", "x", h1, h2, q>> : q \in {"\"", "'"}, h1 \in HexDigits \cup {"g"},
                                  h2 \in HexDigits \cup {"g"}}
  \cup {<<q, "\\", "x", h1>> : q \in {"\"", "'"}, h1 \in HexDigits}
\* a base-16 literal followed by hex letters and suffix letters
HexChars == {"1", "F", "b", "d", "f", "u", "l", "i"}
HexInputs == {<<"0", "x">> \o t : t \in Seqs(HexChars, MaxText - 1)}
LexInputs ==
  Seqs(NumChars, MaxText) \cup Seqs(StrChars, MaxText + 1)
  \cup Seqs(ComChars, MaxText + 1) \cup Seqs(OpChars, MaxText - 1) \cup EscInputs
  \cup HexInputs

\* the text ahead of the lexer: the lookahead and what follows it
Text(L) == IF L.last_char = EOF THEN <<>> ELSE <<L.last_char>> \o L.src

LexStart(input) ==
  [on |-> TRUE, src |-> input, last_char |-> " ", err |-> "", before |-> <<>>,
   identifier_string |-> <<>>, char_value |-> 0, num_value |-> <<>>, num_base |-> 0,
   num_has_dot |-> FALSE, num_type |-> "", string_value |-> <<>>, string_type |-> ""]

InitLex ==
  /\ AstIdle
  /\ castSrc = NoValue /\ castTo = NoType /\ castRes = NoRes
  /\ whileIn = NoWhile /\ exec = NoExec
  /\ \E input \in LexInputs : lex = LexStart(input)
  /\ tok = "none"

\* one call of next_token()
NextToken ==
  /\ lex.on /\ lex.err = ""
  /\ LET r == next_token([lex EXCEPT !.before = Text(lex)])
     IN lex' = r.L /\ tok' = r.tok
  /\ UNCHANGED <<astVars, castVars, runVars>>

NextLex == NextToken
SpecLex == InitLex /\ [][NextLex]_vars

\* ---------------------------------------------------------------------------
\* Properties of SpecLex.  They are stated over the text that lay ahead when
\* the last call began (lex.before), what the call returned (tok, the globals)
\* and the text left ahead of the lexer afterwards.
\* ---------------------------------------------------------------------------
RECURSIVE DropSpace(_)
DropSpace(t) == IF t # <<>> /\ isspace(t[1]) THEN DropSpace(Tail(t)) ELSE t
From(t, i) == SubSeq(t, i, Len(t))
\* a call has been made
Called == tok # "none" \/ lex.err # ""
\* the text the last call met after the white space
Ahead == DropSpace(lex.before)

\* a numeric literal, read off the text
HasPrefix(t) == t[1] = "0" /\ Len(t) >= 2 /\ t[2] \in {"x", "b", "o"}
BaseOf(t) ==
  IF ~HasPrefix(t) THEN 10
  ELSE CASE t[2] = "x" -> 16 [] t[2] = "b" -> 2 [] t[2] = "o" -> 8
ValidDigit(c, base, dot) ==
  CASE base = 16 -> c \in HexDigits
    [] base = 10 -> c \in {"0", "1", "2", "3", "4", "5", "6", "7", "8", "9"} \/ (c = "." /\ ~dot)
    [] base = 8 -> c \in {"0", "1", "2", "3", "4", "5", "6", "7"}
    [] base = 2 -> c \in {"0", "1"}
RECURSIVE DigitsEnd(_, _, _, _)
\* the first position from i on that holds no digit of the literal
DigitsEnd(t, i, base, dot) ==
  IF i > Len(t) \/ ~ValidDigit(t[i], base, dot) THEN i
  ELSE DigitsEnd(t, i + 1, base, dot \/ t[i] = ".")
DigitStart(t) == IF HasPrefix(t) THEN 3 ELSE 1
DigitStop(t) == DigitsEnd(t, DigitStart(t), BaseOf(t), FALSE)
Digits(t) == SubSeq(t, DigitStart(t), DigitStop(t) - 1)
HasDot(t) == \E i \in 1..Len(Digits(t)) : Digits(t)[i] = "."
HasSuffix(t) == DigitStop(t) <= Len(t) /\ t[DigitStop(t)] \in {"d", "l", "f", "i", "u", "b"}
SuffixOf(t) == IF HasSuffix(t) THEN t[DigitStop(t)] ELSE IF HasDot(t) THEN "d" ELSE "i"
AfterNumber(t) == From(t, IF HasSuffix(t) THEN DigitStop(t) + 1 ELSE DigitStop(t))
NumberAhead == Called /\ Ahead # <<>> /\ Ahead[1] \in {"0", "1", "2", "3", "4", "5", "6", "7", "8", "9"}
NumberBut(text) ==
  /\ tok = "T_NUMBER"
  /\ lex.num_value = text
  /\ lex.num_base = BaseOf(Ahead)
  /\ lex.num_has_dot = HasDot(Ahead)
  /\ lex.num_type = SuffixOf(Ahead)
  /\ Text(lex) = AfterNumber(Ahead)

\* C12 as stated: for a numeric literal next_token returns NUMBER with the
\* digits without the base prefix, the base the prefix selects (10 without
\* one), the has-dot flag and the suffix consumed or defaulted.
C12_NumberPayload == NumberAhead => NumberBut(Digits(Ahead))

\* C12 amended: the digit text of a prefixed literal keeps the leading 0 of
\* its prefix (0x1F gives 01F); base, has-dot flag and suffix are as stated.
C12_NumberPayloadKeepsZero ==
  NumberAhead => NumberBut((IF HasPrefix(Ahead) THEN <<"0">> ELSE <<>>) \o Digits(Ahead))
C12_Witness ==
  /\ tok = "T_NUMBER" /\ lex.num_base = 16 /\ lex.num_value = <<"0", "1", "f">>
  /\ lex.num_type = "i" /\ Text(lex) = <<>>

Floating == lex.num_has_dot \/ lex.num_type \in {"d", "f"}
\* C13 as stated: next_token never returns a NUMBER that is floating and has
\* a base other than 10.
C13_LexerRejectsFloatBase == tok = "T_NUMBER" => ~(Floating /\ lex.num_base # 10)

\* the NumberExprAST of the token just returned, and its emission
TokenNumber ==
  NumberExprAST(lex.num_value, lex.num_type, lex.num_has_dot, lex.num_base,
                curr_named_var_types)
\* C13 amended: the lexer reports no error for any numeric literal and returns
\* the floating NUMBER with its base 2, 8 or 16 (the has-dot flag is never set
\* with such a base); the fatal error comes when the NumberExprAST built from
\* the token is emitted.
C13_FloatBaseRejectedAtEmission ==
  /\ NumberAhead => lex.err = ""
  /\ tok = "T_NUMBER" =>
       /\ lex.num_has_dot => lex.num_base = 10
       /\ (Floating /\ lex.num_base # 10) =>
            /\ TokenNumber.err = ""
            /\ gen_value(NewState(curr_named_variables, irn), TokenNumber.node).err
                 = "floating-point numbers with a base that isn't decimal aren't supported."
       /\ (TokenNumber.err = "" /\ ~(Floating /\ lex.num_base # 10)) =>
            gen_value(NewState(curr_named_variables, irn), TokenNumber.node).err = ""
C13_Witness ==
  tok = "T_NUMBER" /\ lex.num_type = "f" /\ lex.num_base = 2 /\ lex.num_value = <<"0", "1">>

\* the value of a hexadecimal digit
HexValue(c) ==
  IF Ord(c) \in 48..57 THEN Ord(c) - 48
  ELSE IF Ord(c) \in 65..70 THEN Ord(c) - 55
  ELSE Ord(c) - 87
\* a string or char literal that begins with a \x escape
HexEscapeAhead ==
  /\ Called /\ Len(Ahead) >= 4
  /\ Ahead[1] \in {"\"", "'"} /\ Ahead[2] = "\\" /\ Ahead[3] = "x"
  /\ Len(Ahead) >= 6 => Ahead[6] = Ahead[1]
\* C14 as stated: \xH1H2 consumes exactly the two characters after the x and
\* yields the byte 16 * value(H1) + value(H2); a character that is no
\* hexadecimal digit in either place is fatal.
C14_HexEscape ==
  HexEscapeAhead =>
    IF Len(Ahead) >= 6 /\ Ahead[4] \in HexDigits /\ Ahead[5] \in HexDigits
    THEN /\ lex.err = ""
         /\ Text(lex) = From(Ahead, 7)
         /\ IF Ahead[1] = "\""
            THEN tok = "T_STRING"
                 /\ lex.string_value = <<16 * HexValue(Ahead[4]) + HexValue(Ahead[5])>>
            ELSE tok = "T_CHAR"
                 /\ lex.char_value = 16 * HexValue(Ahead[4]) + HexValue(Ahead[5])
    ELSE lex.err = "Expected two hex digits after \\x" /\ tok = "none"

RECURSIVE ClosingAt(_, _)
\* the first position from i on where a */ begins, 0 when there is none
ClosingAt(t, i) ==
  IF i + 1 > Len(t) THEN 0
  ELSE IF t[i] = "*" /\ t[i + 1] = "/" THEN i
  ELSE ClosingAt(t, i + 1)
RECURSIVE LineEndAt(_, _)
\* the first position from i on that holds a line end, 0 when there is none
LineEndAt(t, i) ==
  IF i > Len(t) THEN 0
  ELSE IF t[i] \in {"\n", "\r"} THEN i
  ELSE LineEndAt(t, i + 1)
RECURSIVE SkipComments(_)
\* the text without its leading white space and comments, a block comment
\* running to the first */ that begins after the opening /*
SkipComments(t) ==
  LET u == DropSpace(t)
  IN IF Len(u) >= 2 /\ u[1] = "/" /\ u[2] = "/"
     THEN IF LineEndAt(u, 3) = 0 THEN <<>> ELSE SkipComments(From(u, LineEndAt(u, 3)))
     ELSE IF Len(u) >= 2 /\ u[1] = "/" /\ u[2] = "*"
     THEN IF ClosingAt(u, 3) = 0 THEN <<>> ELSE SkipComments(From(u, ClosingAt(u, 3) + 2))
     ELSE u
\* the lexer about to read the text t
LexAt(t) ==
  IF t = <<>> THEN [LexStart(<<>>) EXCEPT !.last_char = EOF]
  ELSE [LexStart(Tail(t)) EXCEPT !.last_char = Head(t)]
CommentAhead == Called /\ Len(Ahead) >= 2 /\ Ahead[1] = "/" /\ Ahead[2] \in {"/", "*"}
\* C15 as stated: when a comment lies ahead, next_token returns what it
\* returns for the text behind the comments, a block comment ending at the
\* first */ that begins after its opening /*; nothing inside a comment becomes
\* a token.
C15_CommentsSkipped ==
  CommentAhead =>
    /\ tok = next_token(LexAt(SkipComments(Ahead))).tok
    /\ Text(lex) = Text(next_token(LexAt(SkipComments(Ahead))).L)
    /\ tok = "T_IDENTIFIER" =>
         lex.identifier_string = next_token(LexAt(SkipComments(Ahead))).L.identifier_string

\* the text ends inside a line comment that begins it
EndsInLineComment(t) ==
  /\ Len(t) >= 2 /\ t[1] = "/" /\ t[2] = "/"
  /\ LineEndAt(t, 3) = 0
\* the text begins with a block comment in which no */ follows the opening
\* slash
EndsInBlockComment(t) ==
  /\ Len(t) >= 2 /\ t[1] = "/" /\ t[2] = "*"
  /\ ClosingAt(t, 2) = 0
\* C16: with the source exhausted next_token returns EOF, and so does every
\* later call; a text that ends inside a line comment or inside a block
\* comment that is never closed ends in EOF as well.
C16_EofAtEnd ==
  /\ (Called /\ Ahead = <<>>) => (tok = "T_EOF" /\ Text(lex) = <<>>)
  /\ tok = "T_EOF" =>
       /\ Text(lex) = <<>> /\ lex.err = ""
       /\ next_token(lex).tok = "T_EOF"
       /\ Text(next_token(lex).L) = <<>>
  /\ (Called /\ (EndsInLineComment(Ahead) \/ EndsInBlockComment(Ahead))) =>
       (tok = "T_EOF" /\ lex.err = "")
\* a call made after EOF had been returned
C16_Witness == tok = "T_EOF" /\ lex.before = <<>> /\ lex.on

\* the escapes of one character
SimpleEscape(c) ==
  CASE c = "n" -> 10 [] c = "r" -> 13 [] c = "t" -> 9 [] c = "'" -> 39
    [] c = "\"" -> 34 [] c = "\\" -> 92 [] c = "0" -> 0 [] OTHER -> -1
RECURSIVE StrBody(_, _, _)
\* the bytes between the quotes, from position i on: whether the literal is
\* well formed, its decoded bytes and the position of its closing quote
StrBody(t, i, acc) ==
  IF i > Len(t) THEN [ok |-> FALSE, bytes |-> acc, close |-> 0]
  ELSE IF t[i] = "\"" THEN [ok |-> TRUE, bytes |-> acc, close |-> i]
  ELSE IF t[i] = "\\"
  THEN IF i + 1 > Len(t) \/ SimpleEscape(t[i + 1]) = -1
       THEN [ok |-> FALSE, bytes |-> acc, close |-> 0]
       ELSE StrBody(t, i + 2, Append(acc, SimpleEscape(t[i + 1])))
  ELSE StrBody(t, i + 1, Append(acc, Ord(t[i])))
\* a string literal without \x escapes
StringAhead ==
  /\ Called /\ Ahead # <<>> /\ Ahead[1] = "\""
  /\ \A i \in 1..Len(Ahead) : Ahead[i] # "x"
SuffixFlavor(t, i) ==
  IF i <= Len(t) /\ t[i] = "c" THEN "C_STRING"
  ELSE IF i <= Len(t) /\ t[i] = "p" THEN "PTR_CHAR_ARRAY"
  ELSE "CHAR_ARRAY"
\* C17: a string literal gives one STRING token whose payload is exactly the
\* escape-decoded bytes between the quotes; the flavor is C_STRING after a c,
\* PTR_CHAR_ARRAY after a p, CHAR_ARRAY otherwise, and the suffix character
\* is consumed and nothing else.
C17_StringToken ==
  StringAhead =>
    IF StrBody(Ahead, 2, <<>>).ok
    THEN /\ tok = "T_STRING" /\ lex.err = ""
         /\ lex.string_value = StrBody(Ahead, 2, <<>>).bytes
         /\ lex.string_type = SuffixFlavor(Ahead, StrBody(Ahead, 2, <<>>).close + 1)
         /\ Text(lex) =
              From(Ahead, StrBody(Ahead, 2, <<>>).close
                          + (IF SuffixFlavor(Ahead, StrBody(Ahead, 2, <<>>).close + 1)
                                = "CHAR_ARRAY" THEN 1 ELSE 2))
    ELSE tok = "none" /\ lex.err # ""
C17_Witness ==
  /\ tok = "T_STRING" /\ lex.string_type = "C_STRING" /\ lex.string_value = <<10>>
  /\ lex.before = <<" ", "\"", "\\", "n", "\"", "c">> /\ Text(lex) = <<>>

\* the tokens of two characters
TwoCharToken(a, b) ==
  CASE a = "=" /\ b = "=" -> "T_EQEQ" [] a = "<" /\ b = "=" -> "T_LEQ"
    [] a = ">" /\ b = "=" -> "T_GEQ" [] a = "!" /\ b = "=" -> "T_NEQ"
    [] a = "+" /\ b = "=" -> "T_PLUSEQ" [] a = "-" /\ b = "=" -> "T_MINEQ"
    [] a = "*" /\ b = "=" -> "T_STAREQ" [] a = "/" /\ b = "=" -> "T_SLASHEQ"
    [] a = "%" /\ b = "=" -> "T_PERCENTEQ" [] a = "&" /\ b = "=" -> "T_ANDEQ"
    [] a = "|" /\ b = "=" -> "T_OREQ" [] a = "|" /\ b = "|" -> "T_LOR"
    [] a = "&" /\ b = "&" -> "T_LAND" [] a = "<" /\ b = "<" -> "T_LSHIFT"
    [] a = ">" /\ b = ">" -> "T_RSHIFT" [] a = ":" /\ b = ":" -> "T_DOUBLE_COLON"
    [] OTHER -> ""
\* an operator character lies ahead, and no comment
OperatorAhead ==
  /\ Called /\ Ahead # <<>>
  /\ Ahead[1] \in {"=", "<", ">", "!", "+", "-", "*", "/", "%", "&", "|", ":"}
  /\ ~(Len(Ahead) >= 2 /\ Ahead[1] = "/" /\ Ahead[2] \in {"/", "*"})
\* C18: the two-character operators are taken whole and consume two
\* characters; any other operator character is returned as itself and
\* consumes exactly one character.
C18_MaximalMunch ==
  OperatorAhead =>
    /\ lex.err = ""
    /\ IF Len(Ahead) >= 2 /\ TwoCharToken(Ahead[1], Ahead[2]) # ""
       THEN tok = TwoCharToken(Ahead[1], Ahead[2]) /\ Text(lex) = From(Ahead, 3)
       ELSE tok = Ahead[1] /\ Text(lex) = From(Ahead, 2)
C18_Witness ==
  tok = "T_LSHIFT" /\ lex.before = <<" ", "<", "<", "=">> /\ Text(lex) = <<"=">>


RECURSIVE HexRun(_)
\* the longest run of hexadecimal digits the text t begins with
HexRun(t) ==
  IF t = <<>> \/ t[1] \notin HexDigits THEN <<>> ELSE <<t[1]>> \o HexRun(Tail(t))
HexLiteralAhead == Called /\ Len(Ahead) >= 2 /\ Ahead[1] = "0" /\ Ahead[2] = "x"
\* C26: in a base-16 literal the letters b, d and f that follow the digits are
\* taken as digits, never as the suffix: the digit text holds every
\* hexadecimal digit up to the first character that is none, the suffix is i,
\* u or l (i when absent), and no base-16 NUMBER has the type b, d or f.
C26_HexLettersAreDigits ==
  /\ (tok = "T_NUMBER" /\ lex.num_base = 16) => lex.num_type \in {"i", "u", "l"}
  /\ HexLiteralAhead =>
       /\ tok = "T_NUMBER" /\ lex.num_base = 16
       /\ lex.num_value = <<"0">> \o HexRun(From(Ahead, 3))
       /\ LET rest == From(Ahead, 3 + Len(HexRun(From(Ahead, 3))))
          IN IF rest # <<>> /\ rest[1] \in {"i", "u", "l"}
             THEN lex.num_type = rest[1] /\ Text(lex) = Tail(rest)
             ELSE lex.num_type = "i" /\ Text(lex) = rest
C26_Witness ==
  /\ tok = "T_NUMBER" /\ lex.num_base = 16 /\ lex.num_type = "i"
  /\ lex.before = <<" ", "0", "x", "1", "F", "b">>
  /\ lex.num_value = <<"0", "1", "F", "b">> /\ Text(lex) = <<>>

\* ---------------------------------------------------------------------------
\* A string literal lexed, constructed and emitted.  next_token() fills
\* string_value and string_type; the parser hands the bytes, with or without
\* a closing null byte, to StringExprAST, which has no parameter for the
\* flavor; gen_value() lowers the node.
\* ---------------------------------------------------------------------------
StringInputs == {t \in Seqs(StrChars, MaxText + 1) : t # <<>> /\ t[1] = "\""}

InitString ==
  /\ AstIdle
  /\ castSrc = NoValue /\ castTo = NoType /\ castRes = NoRes
  /\ whileIn = NoWhile /\ exec = NoExec
  /\ \E input \in StringInputs : lex = LexStart(input)
  /\ tok = "none"

\* the literal's token is read
ReadStringToken == tok = "none" /\ NextToken

\* new StringExprAST(chars, length) over the token's bytes
NewString(nul) ==
  /\ tok = "T_STRING" /\ fatal = NoFatal /\ last = NoLast /\ LeafRoom(TRUE)
  /\ nul \/ lex.string_value # <<>>
  /\ PushLeaf(StringExprAST(IF nul THEN Append(lex.string_value, 0) ELSE lex.string_value,
                            curr_named_var_types), "StringExprAST", {})
  /\ UNCHANGED <<castVars, runVars, lexVars>>

NextString == ReadStringToken \/ (\E nul \in BOOLEAN : NewString(nul)) \/ Emit
SpecString == InitString /\ [][NextString]_vars

StringEmitted == last.done /\ last.node.k = "String" /\ last.err = ""
\* C21: the type of a string literal follows its flavor: a CHAR_ARRAY literal
\* of len bytes has the type Tuple(U8 x len) and its value is an immediate
\* constant; a C_STRING or PTR_CHAR_ARRAY literal has the type Pointer(U8) and
\* its value is a pointer into a module-level constant that holds the bytes.
C21_StringTypeByFlavor ==
  StringEmitted =>
    IF lex.string_type = "CHAR_ARRAY"
    THEN /\ last.node.type
              = TupleType([j \in 1..Len(lex.string_value) |-> NumType(8, FALSE, FALSE)])
         /\ last.v.val[1] # "gep"
    ELSE /\ last.node.type = PointerType(NumType(8, FALSE, FALSE))
         /\ last.v.val[1] = "gep" /\ last.v.val[2][1] = "global"
         /\ SubSeq(last.v.val[2][4], 1, Len(lex.string_value)) = lex.string_value

\* ---------------------------------------------------------------------------
\* Properties of an emitted if (Spec)
\* ---------------------------------------------------------------------------
IfEmitted == last.done /\ last.err = "" /\ last.node.k = "If"
\* the instruction of the emitted blocks that ref names
InstOf(ref) == CHOOSE i \in InstSet(last.blocks) : i.id = ref[2]
\* the LLVM type of an operand of the emitted blocks
TypeOfRef(ref) ==
  CASE ref[1] \in {"const", "null"} -> ref[2]
    [] ref[1] = "inst" -> InstOf(ref).ty
    [] OTHER -> NoType
\* the conditional branch of the if
IfBranch == CHOOSE i \in InstSet(last.blocks) : i.op = "CondBr"
\* ref is the comparison op of some value of type ty with the zero of ty
ComparesWithZero(ref, op, ty) ==
  /\ ref[1] = "inst" /\ InstOf(ref).op = op
  /\ TypeOfRef(InstOf(ref).args[1]) = ty
  /\ InstOf(ref).args[2] = <<"const", ty, 0>>
\* C24: the value an if branches on is a boolean made from the condition
\* according to its type: a floating condition is compared with the zero of
\* its own type, an I1 condition is used as it is, an integer condition of
\* another width is compared with zero; the branch never gets a value that is
\* not I1.
C24_ConditionNormalized ==
  IfEmitted =>
    /\ TypeOfRef(IfBranch.args[1]) = I1
    /\ CASE last.node.cond.type.tt = "Number" /\ last.node.cond.type.is_floating ->
              ComparesWithZero(IfBranch.args[1], "FCmpONE", last.node.cond.type)
         [] last.node.cond.type = I1 ->
              ~ComparesWithZero(IfBranch.args[1], "ICmpNE", I1)
         [] OTHER ->
              ComparesWithZero(IfBranch.args[1], "ICmpNE", last.node.cond.type)

\* ---------------------------------------------------------------------------
\* An if whose arms hold further ifs and whiles, compiled and run (SpecIf)
\* ---------------------------------------------------------------------------
IfShapes == {"flat", "thenIf", "elseIf", "bothIf", "thenWhile", "elseWhile"}
IfInputs == [kind : {"if"}, shape : IfShapes, start : 0..MaxCount]

\* fun x() { let y = start; if (y < 1) T else E }, where an arm is a number,
\* if (y < 2) 3 else 4, or while (y < 2) y = y + 1 else 5
IfProgram(in, nvt) ==
  LET num(x, t) == NumberExprAST(x, "i", FALSE, 10, t).node
      y(t) == VariableExprAST("y", t).node
      less(x, t) == BinaryExprAST("<", y(t), num(x, t), t).node
      innerIf(t) == IfExprAST("If", less(2, t), num(3, t), num(4, t), t).node
      innerWhile(t) ==
        IfExprAST("While", less(2, t),
                  BinaryExprAST("=", y(t), BinaryExprAST("+", y(t), num(1, t), t).node,
                                t).node,
                  num(5, t), t).node
      thenArm(t) == CASE in.shape \in {"thenIf", "bothIf"} -> innerIf(t)
                      [] in.shape = "thenWhile" -> innerWhile(t)
                      [] OTHER -> num(1, t)
      elseArm(t) == CASE in.shape \in {"elseIf", "bothIf"} -> innerIf(t)
                      [] in.shape = "elseWhile" -> innerWhile(t)
                      [] OTHER -> num(2, t)
  IN
  Bind(PrototypeAST("x", <<>>, <<>>, NoType, FALSE, nvt), LAMBDA proto :
  Bind(LetExprAST("y", NoType, num(in.start, proto.nvt), FALSE, FALSE, proto.nvt),
       LAMBDA let :
  Bind(IfExprAST("If", less(1, let.nvt), thenArm(let.nvt), elseArm(let.nvt), let.nvt),
       LAMBDA outer :
  Bind(BlockExprAST(<<let.node, outer.node>>, let.nvt), LAMBDA block :
    FunctionAST(proto.node, block.node, let.nvt)))))

\* the program is constructed and emitted, the machine stands at the entry
CompileIf ==
  /\ whileIn \in IfInputs /\ exec = NoExec /\ module = <<>>
  /\ LET fn == IfProgram(whileIn, curr_named_var_types)
         t == FunctionAST_gen_toplevel(TopState(module, curr_named_variables, irn, NoType),
                                       fn.node)
     IN /\ fn.err = "" /\ t.err = ""
        /\ curr_named_var_types' = fn.nvt
        /\ curr_named_variables' = t.vars
        /\ module' = t.module
        /\ irn' = t.n
        /\ exec' = [on |-> TRUE, blk |-> 1, idx |-> 1, prev |-> 0,
                    env |-> [i \in 1..t.n |-> 0], mem |-> [i \in 1..t.n |-> 0],
                    thens |-> 0, elses |-> 0, halted |-> FALSE, result |-> 0,
                    aborted |-> FALSE]
  /\ UNCHANGED <<operands, node, last, fatal, bound, declared, whileIn>>
  /\ UNCHANGED <<castVars, lexVars>>

InitIf ==
  /\ AstIdle
  /\ castSrc = NoValue /\ castTo = NoType /\ castRes = NoRes
  /\ whileIn \in IfInputs /\ exec = NoExec
  /\ lex = NoLex /\ tok = "none"

NextIf == CompileIf \/ StepIR
SpecIf == InitIf /\ [][NextIf]_vars

IfCompiled == whileIn \in IfInputs /\ exec # NoExec
Terminators == {"Br", "CondBr", "Ret"}
\* the blocks a terminator can pass control to
Targets(ins) ==
  CASE ins.op = "Br" -> {ins.args[1][2]}
    [] ins.op = "CondBr" -> {ins.args[2][2], ins.args[3][2]}
    [] OTHER -> {}
\* block p can pass control to block b
Predecessor(p, b) ==
  \E i \in 1..Len(module[1].blocks[p].insts) : b \in Targets(module[1].blocks[p].insts[i])
\* the block's only terminator is its last instruction
OneTerminator(b) ==
  /\ Len(b.insts) >= 1
  /\ \A i \in 1..Len(b.insts) : b.insts[i].op \in Terminators <=> i = Len(b.insts)
\* every phi stands in a merge block, and each block it names passes control
\* to that block
PhiIncomingArePredecessors ==
  \A b \in 1..Len(module[1].blocks) : \A i \in 1..Len(module[1].blocks[b].insts) :
    LET ins == module[1].blocks[b].insts[i]
    IN ins.op = "Phi" =>
         /\ Predecessor(ins.args[2][2], b) /\ Predecessor(ins.args[4][2], b)
         /\ module[1].blocks[b].name \in {"ifmerge", "endwhile"}
\* the builder stood at the merge block of the outer if when the function's
\* return was built: the phi of the if and the return are in that block
BuilderLeftAtMerge ==
  \E b \in 1..Len(module[1].blocks) : \E i, j \in 1..Len(module[1].blocks[b].insts) :
    /\ module[1].blocks[b].name = "ifmerge"
    /\ i < j
    /\ module[1].blocks[b].insts[i].op = "Phi"
    /\ module[1].blocks[b].insts[j].op = "Ret"
CastMade == castRes # NoRes /\ "made" \in DOMAIN castRes
\* cast(source, to) has no conversion for the pair
Impossible(source, to) == cast(NewState(<<>>, 0), source, to).err # ""
\* C25: cast_to gives a Cast value of the source to the target for every
\* source and target, emitting nothing, leaving the builder where it was and
\* raising no error; the error of an impossible cast is raised when the value
\* is loaded, and the load emits what cast(source, to) emits.
C25_CastToIsLazy ==
  CastMade =>
    /\ castRes.v = CastValue(castSrc, castTo)
    /\ ~castRes.done =>
         /\ castRes.insts = <<>> /\ castRes.err = ""
         /\ castRes.cur = NewState(<<>>, 0).cur
    /\ castRes.done =>
         /\ castRes.ok <=> ~Impossible(castSrc, castTo)
         /\ castRes.insts = cast(NewState(<<>>, 0), castSrc, castTo).blocks[1].insts
\* an impossible cast was made, without an error and without an instruction
C25_Witness ==
  /\ CastMade /\ ~castRes.done /\ Impossible(castSrc, castTo)
  /\ castRes.v.kind = "CastValue" /\ castRes.insts = <<>> /\ castRes.err = ""
============================================================================
